---- MODULE Spec2Model ----
(***************************************************************************)
(* Model of go-lambda-builder's per-folder deployment pipeline, data.run   *)
(* (run.go), together with the external collaborators it drives: the local *)
(* file system, the S3 bucket, AWS Signer and the Lambda function.         *)
(*                                                                         *)
(* One pipeline run is a sequence of steps, one per call made by data.run; *)
(* pc names the call that is about to be made.  Every external call may    *)
(* fail.  Deferred calls are kept on a stack and run, last registered      *)
(* first, once the return value has been fixed.                            *)
(***************************************************************************)
EXTENDS Integers, Sequences, FiniteSets, TLC

\* Number of pipeline runs (builder invocations) explored for the folder.
MaxRuns == 2

\* ------------------------------------------------------------------------
\* Configuration (flags of the builder).
\* ------------------------------------------------------------------------
Folder == "testLambda01"

\* d.unsignedPrefix, d.stagingPrefix, d.signedPrefix: the values of
\* -unsigned-prefix, -staging-prefix and -signed-prefix
VARIABLES unsignedPrefix, stagingPrefix, signedPrefix

prefixVars == <<unsignedPrefix, stagingPrefix, signedPrefix>>

\* the prefixes the test workflow passes
TestPrefixes == <<"test/unsigned", "test/staging", "test/signed">>

\* the strings the prefix flags are given
Prefixes == {"test/unsigned", "test/staging", "test/signed"}

executablePath(folder) == <<"/tmp", folder>>

unsignedKey(folder) == <<unsignedPrefix, folder>>

signedKey(folder) == <<signedPrefix, folder>>

JobName(n) == "job" \o ToString(n)

stagingKeyOf(job) == <<stagingPrefix, job>>

JobNums == 1..MaxRuns

Keys == {<<p, Folder>> : p \in Prefixes}
            \cup {<<p, JobName(n)>> : p \in Prefixes, n \in JobNums}

\* ------------------------------------------------------------------------
\* Source files of the folder and the fingerprint.
\* ------------------------------------------------------------------------
FileNames == {"go.mod", "main.go"}

\* Contents a source file can have (byte sequences).
Contents == {<<1>>, <<1, 1>>}

FileStates == [FileNames -> Contents]

InitialFiles == [n \in FileNames |-> <<1>>]

\* The files that get edited between two invocations of the builder.
EditableFiles == {"main.go"}

\* lexicographic rank of the file names, as sort.Strings orders them
Rank(name) ==
    IF name = "go.mod" THEN 1
    ELSE IF name = "main.go" THEN 2
    ELSE IF name = "notes.txt" THEN 3
    ELSE 4

\* filepath.Glob(folder + "/" + pattern) over the folder's files
Glob(pattern) ==
    LET matches == IF pattern = "go.*" THEN {n \in FileNames : n = "go.mod"}
                   ELSE {n \in FileNames : n = "main.go"}
        RECURSIVE List(_)
        List(S) == IF S = {} THEN <<>>
                   ELSE LET n == CHOOSE x \in S : TRUE
                        IN <<n>> \o List(S \ {n})
    IN List(matches)

RECURSIVE Insert(_, _)
Insert(name, sorted) ==
    IF sorted = <<>> THEN <<name>>
    ELSE IF Rank(name) <= Rank(Head(sorted)) THEN <<name>> \o sorted
    ELSE <<Head(sorted)>> \o Insert(name, Tail(sorted))

RECURSIVE SortStrings(_)
SortStrings(names) ==
    IF names = <<>> THEN <<>>
    ELSE Insert(Head(names), SortStrings(Tail(names)))

\* sha256 followed by base64: an ideal, collision-free digest of the bytes
\* written to it; the rendered digest is never the empty string.
Digest(bytes) == <<0>> \o bytes


\* (variant: the length of each file is written to the hash before its bytes)
RECURSIVE CopyAll_Framed(_, _)
CopyAll_Framed(names, fs) ==
    IF names = <<>> THEN <<>>
    ELSE <<Len(fs[Head(names)])>> \o fs[Head(names)] \o CopyAll_Framed(Tail(names), fs)

\* (variant: only the first file is written to the hash)
CopyAll_FirstOnly(names, fs) ==
    IF names = <<>> THEN <<>>
    ELSE fs[Head(names)]

RECURSIVE CopyAll(_, _)
CopyAll(names, fs) ==
    IF names = <<>> THEN <<>>
    ELSE fs[Head(names)] \o CopyAll(Tail(names), fs)

hashSourceCode(fs) ==
    LET filenames == SortStrings(Glob("go.*") \o Glob("*.go"))
    IN Digest(CopyAll(filenames, fs))

hashObject(bytes) == Digest(bytes)

\* go build: the executable is a function of the sources it compiled
Compile(fs) == <<7>> \o CopyAll(SortStrings(Glob("go.*") \o Glob("*.go")), fs)

\* archive with the single entry "main"
zipExecutable(exe) == <<8>> \o exe

\* output of a signing job: differs from job to job on the same input
SignedBytes(n, bytes) == <<9, n>> \o bytes

\* ------------------------------------------------------------------------
\* The bucket.
\* ------------------------------------------------------------------------
NoValue == <<>>

\* metadata keys as S3 returns them (user metadata keys are lower-cased)
MetaKeys == {"unsignedhash", "signedhash", "source-code-hash"}

ToLower(k) == IF k = "unsignedHash" THEN "unsignedhash"
              ELSE IF k = "signedHash" THEN "signedhash"
              ELSE k

NoMeta == [nil |-> TRUE, kv |-> [k \in MetaKeys |-> NoValue]]

NoObject == [exists |-> FALSE, body |-> <<>>, meta |-> NoMeta, ver |-> 0]

\* the metadata map stored for a map passed by the caller
StoredMeta(passed) ==
    [nil |-> FALSE,
     kv  |-> [k \in MetaKeys |->
                IF \E p \in DOMAIN passed : ToLower(p) = k
                THEN passed[CHOOSE p \in DOMAIN passed : ToLower(p) = k]
                ELSE NoValue]]

\* (variant: the two fingerprints are attached under each other's key)
runMetadata_Swapped(uHash, sHash) ==
    [k \in {"unsignedHash", "signedHash", "source-code-hash"} |->
        IF k = "unsignedHash" THEN sHash ELSE uHash]

\* the metadata data.run attaches to the signed copy
runMetadata(uHash, sHash) ==
    [k \in {"unsignedHash", "signedHash", "source-code-hash"} |->
        IF k = "unsignedHash" THEN uHash ELSE sHash]

\* HeadObject output for a key; a missing key is an error
HeadOutputs(st, key) ==
    {[err |-> TRUE, meta |-> NoMeta]}
        \cup (IF st[key].exists
              THEN {[err |-> FALSE, meta |-> st[key].meta]}
              ELSE {})

\* ------------------------------------------------------------------------
\* Errors.
\* ------------------------------------------------------------------------
Nil == "nil"

Err(stage) == "error: " \o stage

\* (variant: a failed lookup is handed to the caller as an error)
isUpToDate_ReturnsLookupError(output, unsignedHashArg) ==
    IF output.err THEN [val |-> FALSE, err |-> Err("HeadObject")]
    ELSE IF output.meta.nil THEN [val |-> FALSE, err |-> Nil]
    ELSE IF output.meta.kv["unsignedhash"] = NoValue
         THEN [val |-> FALSE, err |-> Nil]
    ELSE IF unsignedHashArg # output.meta.kv["unsignedhash"]
         THEN [val |-> FALSE, err |-> Nil]
    ELSE [val |-> TRUE, err |-> Nil]

\* Returns true only if the previous deployment package carries exactly
\* unsignedHash; every other outcome of the lookup is "not up to date".
isUpToDate(output, unsignedHashArg) ==
    IF output.err THEN [val |-> FALSE, err |-> Nil]
    ELSE IF output.meta.nil THEN [val |-> FALSE, err |-> Nil]
    ELSE IF output.meta.kv["unsignedhash"] = NoValue
         THEN [val |-> FALSE, err |-> Nil]
    ELSE IF unsignedHashArg # output.meta.kv["unsignedhash"]
         THEN [val |-> FALSE, err |-> Nil]
    ELSE [val |-> TRUE, err |-> Nil]

\* ------------------------------------------------------------------------
\* State.
\* ------------------------------------------------------------------------
VARIABLES
    files,              \* content of the folder's source files
    localExe,           \* bytes at executablePath, <<>> when there is no file
    store,              \* the bucket: key -> object
    nextVersion,        \* version ids handed out by the bucket so far
    jobs,               \* signing jobs: number -> status and source
    lambdaFn,           \* the Lambda function named after the folder
    force,              \* d.force
    noUpdateFunctions,  \* d.noUpdateFunctions
    runs,               \* pipeline runs started so far
    pc,                 \* the call data.run makes next
    unsignedHash, unsignedR, objectVersion, jobId, signedR, signedHash,
    functionVersion,    \* locals of data.run
    result,             \* the error data.run returns
    defers,             \* deferred calls, most recently registered first
    trace,              \* stages executed in this run, with their outcome
    scheduled,          \* deferred calls in the order of their registration
    cleaned,            \* deferred calls executed in this run
    failedStage,        \* the stage whose error ended the run, if any
    headOut,            \* what HeadObject returned to isUpToDate in this run
    upToDate,           \* what isUpToDate returned in this run
    srcAtHash,          \* the sources hashSourceCode read in this run
    prev,               \* outcome of the previous run
    deployed            \* fingerprints that went through every stage

\* State of main() (main.go), the dispatcher of the pipelines.
VARIABLES
    tree,               \* the source tree: folder -> number of its *.go files
    foldersFlag,        \* -folders, split at the commas (<<>> when not given)
    partition,          \* -instance and -num-instances
    blocked,            \* goroutines whose pipeline waits in an external call
                        \* that never returns
    mainPc,             \* where main() is
    allFolders,         \* what lambdaFolders() returned
    folders,            \* the folders to deploy
    chunks,             \* the chunks main() cut the folders into
    selected,           \* the folders before a chunk of them was selected
    task,               \* the goroutine of each folder: where it is
    taskErr,            \* what d.run returned in each goroutine
    launched,           \* goroutines started by the dispatch loop
    results,            \* the results channel: messages buffered
    closed,             \* the results channel was closed
    numResults,         \* results received by main()
    failures,           \* folders received with an error, as received
    collected,          \* the goroutines of the results received, as received
    took,               \* the elapsed time was printed
    exit,               \* how the process ended
    panicMsg            \* the folders listed by the final panic

dispVars == <<tree, foldersFlag, partition, blocked, mainPc, allFolders, folders, chunks,
              selected, task, taskErr, launched, results, closed, numResults,
              failures, collected, took, exit, panicMsg>>

\* The dispatch loop of the older main(), with a sync.WaitGroup: the err of
\* main() is the one variable the goroutines have in common.
VARIABLES wgFolders, wgMain, wgPc, wgBuilt, wgTreated, wgCounter, err

wgVars == <<wgFolders, wgMain, wgPc, wgBuilt, wgTreated, wgCounter, err>>

\* Calls of hashSourceCode on a folder that is edited between them.
VARIABLES fpFiles, fpUnreadable, fpCalls, fpEdits, fpOut, fpPrevOut, fpHashed,
          fpPrevHashed, fpListing, fpPrevListing

fpVars == <<fpFiles, fpUnreadable, fpCalls, fpEdits, fpOut, fpPrevOut, fpHashed,
            fpPrevHashed, fpListing, fpPrevListing>>

extVars == <<files, localExe, store, nextVersion, jobs, lambdaFn>>

cfgVars == <<force, noUpdateFunctions, runs>>

locVars == <<unsignedHash, unsignedR, objectVersion, jobId, signedR,
             signedHash, functionVersion>>

histVars == <<headOut, upToDate, srcAtHash, prev, deployed>>

pipeVars == <<prefixVars, extVars, cfgVars, locVars, histVars, pc, result,
              defers, trace, scheduled, cleaned, failedStage>>

\* what the actions of data.run leave alone
nonPipeVars == <<prefixVars, dispVars, wgVars, fpVars>>

\* what the actions of main() leave alone
nonDispVars == <<pipeVars, wgVars, fpVars>>

\* what the goroutines of the WaitGroup loop leave alone
nonWgVars == <<pipeVars, dispVars, fpVars>>

\* what the calls of hashSourceCode on their own leave alone
nonFpVars == <<pipeVars, dispVars, wgVars>>

vars == <<pipeVars, dispVars, wgVars, fpVars>>

NoJob == [status |-> "none", key |-> unsignedKey(Folder), ver |-> 0,
          body |-> <<>>]

NoHead == [err |-> TRUE, meta |-> NoMeta]

NoRet == [val |-> FALSE, err |-> Nil]

NoPrev == [ran |-> FALSE, ok |-> FALSE, src |-> InitialFiles, copied |-> FALSE]

stagingKey == stagingKeyOf(JobName(jobId))

\* A signed object left by an earlier deployment of the folder.
OldBody == <<9, 0>>

OldMetas ==
    {NoMeta,
     [nil |-> FALSE,
      kv  |-> [k \in MetaKeys |->
                 IF k = "unsignedhash" THEN NoValue ELSE Digest(OldBody)]]}
    \cup {StoredMeta(runMetadata(hashSourceCode(fs), Digest(OldBody))) :
            fs \in {InitialFiles, [InitialFiles EXCEPT !["main.go"] = <<1, 1>>]}}

InitialSigned ==
    {NoObject} \cup {[exists |-> TRUE, body |-> OldBody, meta |-> m, ver |-> 0] :
                        m \in OldMetas}

\* the folder, the bucket, the services and data.run before the first run;
\* o is the object at the signed key
PipeStart(o) ==
    /\ files = InitialFiles
    /\ localExe = <<>>
    /\ store = [k \in Keys |-> IF k = signedKey(Folder) THEN o ELSE NoObject]
    \* a fingerprint found in the bucket was stored by a deployment that is
    \* taken to have been completed
    /\ deployed = IF o.exists /\ ~o.meta.nil
                     /\ o.meta.kv["unsignedhash"] # NoValue
                  THEN {o.meta.kv["unsignedhash"]} ELSE {}
    /\ nextVersion = 0
    /\ jobs = [n \in JobNums |-> NoJob]
    /\ lambdaFn = [code |-> OldBody, state |-> "ok", version |-> 0, alias |-> 0,
                   codeSha256 |-> NoValue]
    /\ force = FALSE
    /\ noUpdateFunctions = FALSE
    /\ runs = 0
    /\ pc = "idle"
    /\ unsignedHash = NoValue
    /\ unsignedR = <<>>
    /\ objectVersion = 0
    /\ jobId = 0
    /\ signedR = <<>>
    /\ signedHash = NoValue
    /\ functionVersion = 0
    /\ result = Nil
    /\ defers = <<>>
    /\ trace = <<>>
    /\ scheduled = <<>>
    /\ cleaned = <<>>
    /\ failedStage = "none"
    /\ headOut = NoHead
    /\ upToDate = NoRet
    /\ srcAtHash = InitialFiles
    /\ prev = NoPrev

\* the builder is started with the prefixes of the test workflow
PipeInit(o) ==
    /\ unsignedPrefix = TestPrefixes[1]
    /\ stagingPrefix = TestPrefixes[2]
    /\ signedPrefix = TestPrefixes[3]
    /\ PipeStart(o)

NoPartition == [on |-> FALSE, instance |-> 0, numInstances |-> 1]

\* main() is not running
DispIdle ==
    /\ tree = [f \in {} |-> 0]
    /\ foldersFlag = <<>>
    /\ partition = NoPartition
    /\ blocked = {}
    /\ mainPc = "idle"
    /\ allFolders = <<>>
    /\ folders = <<>>
    /\ chunks = <<>>
    /\ selected = <<>>
    /\ task = <<>>
    /\ taskErr = <<>>
    /\ launched = 0
    /\ results = <<>>
    /\ closed = FALSE
    /\ numResults = 0
    /\ failures = <<>>
    /\ collected = <<>>
    /\ took = FALSE
    /\ exit = "none"
    /\ panicMsg = <<>>

\* the WaitGroup loop is not running
WgIdle ==
    /\ wgFolders = <<>>
    /\ wgMain = "idle"
    /\ wgPc = <<>>
    /\ wgBuilt = <<>>
    /\ wgTreated = <<>>
    /\ wgCounter = 0
    /\ err = "nil"

NoFingerprint == [hash |-> <<>>, err |-> "none"]

\* no call of hashSourceCode on its own is under way
FpIdle ==
    /\ fpFiles = [n \in {} |-> <<>>]
    /\ fpUnreadable = {}
    /\ fpCalls = 0
    /\ fpEdits = 0
    /\ fpOut = NoFingerprint
    /\ fpPrevOut = NoFingerprint
    /\ fpHashed = [n \in {} |-> <<>>]
    /\ fpPrevHashed = [n \in {} |-> <<>>]
    /\ fpListing = <<>>
    /\ fpPrevListing = <<>>

\* One folder is deployed, by one builder invocation after the other.
Init ==
    /\ \E o \in InitialSigned : PipeInit(o)
    /\ DispIdle
    /\ WgIdle
    /\ FpIdle


\* The values of the three prefix flags: up to renaming, every pattern of
\* equal and different prefixes. The flags are free strings (flag.String,
\* default ""), so leaving them all out makes the three of them equal.
PrefixConfigs == Prefixes \X {"test/staging", "test/signed"} \X {"test/signed"}

\* One folder is deployed into an empty bucket, by one builder invocation
\* after the other, under any configuration of the prefixes.
PrefixInit ==
    /\ \E c \in PrefixConfigs :
          /\ unsignedPrefix = c[1]
          /\ stagingPrefix = c[2]
          /\ signedPrefix = c[3]
    /\ PipeStart(NoObject)
    /\ DispIdle
    /\ WgIdle
    /\ FpIdle

\* the stages of the current run that succeeded
Succeeded(stage) == \E i \in 1..Len(trace) : trace[i] = [stage |-> stage, ok |-> TRUE]

Executed(stage) == \E i \in 1..Len(trace) : trace[i].stage = stage

\* ------------------------------------------------------------------------
\* A builder invocation calls d.run(folder) for the folder.
\* ------------------------------------------------------------------------
StartRun ==
    /\ pc \in {"idle", "returned"}
    /\ runs < MaxRuns
    /\ runs' = runs + 1
    /\ force' \in BOOLEAN
    /\ noUpdateFunctions' \in BOOLEAN
    /\ prev' = [ran |-> pc = "returned", ok |-> pc = "returned" /\ result = Nil,
                src |-> srcAtHash, copied |-> Succeeded("copyObject")]
    /\ pc' = "hashSourceCode"
    /\ unsignedHash' = NoValue
    /\ unsignedR' = <<>>
    /\ objectVersion' = 0
    /\ jobId' = 0
    /\ signedR' = <<>>
    /\ signedHash' = NoValue
    /\ functionVersion' = 0
    /\ result' = Nil
    /\ defers' = <<>>
    /\ trace' = <<>>
    /\ scheduled' = <<>>
    /\ cleaned' = <<>>
    /\ failedStage' = "none"
    /\ headOut' = NoHead
    /\ upToDate' = NoRet
    /\ UNCHANGED <<extVars, srcAtHash, deployed>>
    /\ UNCHANGED nonPipeVars

\* (variant: a failing stage leaves the function without running the
\* deferred calls)
Outcome_SkipsDeferred(stage, ok, next) ==
    /\ trace' = Append(trace, [stage |-> stage, ok |-> ok])
    /\ IF ok
       THEN pc' = next /\ UNCHANGED <<result, failedStage>>
       ELSE pc' = "returned" /\ result' = Err(stage) /\ failedStage' = stage

\* bookkeeping shared by the stages: the stage is recorded; on success the
\* run goes on with next, on failure it returns the stage's error
Outcome(stage, ok, next) ==
    /\ trace' = Append(trace, [stage |-> stage, ok |-> ok])
    /\ IF ok
       THEN pc' = next /\ UNCHANGED <<result, failedStage>>
       ELSE pc' = "defers" /\ result' = Err(stage) /\ failedStage' = stage

\* defer f(arg)

\* (variant: the deferred calls run in the order of their registration)
Defer_Fifo(fn, arg) ==
    /\ defers' = Append(defers, [fn |-> fn, arg |-> arg])
    /\ scheduled' = Append(scheduled, [fn |-> fn, arg |-> arg])

Defer(fn, arg) ==
    /\ defers' = <<[fn |-> fn, arg |-> arg]>> \o defers
    /\ scheduled' = Append(scheduled, [fn |-> fn, arg |-> arg])

\* (variant: the freshness check is made whether the run is forced or not)
HashSourceCode_AlwaysChecks ==
    /\ pc = "hashSourceCode"
    /\ \E ok \in BOOLEAN :
          /\ Outcome("hashSourceCode", ok, "isUpToDate")
          /\ unsignedHash' = IF ok THEN hashSourceCode(files) ELSE unsignedHash
    /\ srcAtHash' = files
    /\ UNCHANGED <<extVars, cfgVars, unsignedR, objectVersion, jobId, signedR,
                   signedHash, functionVersion, defers, scheduled, cleaned,
                   headOut, upToDate, prev, deployed>>
    /\ UNCHANGED nonPipeVars

\* (variant: the run goes on after hashSourceCode returned an error)
HashSourceCode_IgnoresError ==
    /\ pc = "hashSourceCode"
    /\ \E ok \in BOOLEAN :
          /\ trace' = Append(trace, [stage |-> "hashSourceCode", ok |-> ok])
          /\ pc' = IF force THEN "buildExecutable" ELSE "isUpToDate"
          /\ IF ok
             THEN UNCHANGED <<result, failedStage>>
             ELSE result' = Err("hashSourceCode") /\ failedStage' = "hashSourceCode"
          /\ unsignedHash' = IF ok THEN hashSourceCode(files) ELSE unsignedHash
    /\ srcAtHash' = files
    /\ UNCHANGED <<extVars, cfgVars, unsignedR, objectVersion, jobId, signedR,
                   signedHash, functionVersion, defers, scheduled, cleaned,
                   headOut, upToDate, prev, deployed>>
    /\ UNCHANGED nonPipeVars

HashSourceCode ==
    /\ pc = "hashSourceCode"
    /\ \E ok \in BOOLEAN :
          /\ Outcome("hashSourceCode", ok, IF force THEN "buildExecutable" ELSE "isUpToDate")
          /\ unsignedHash' = IF ok THEN hashSourceCode(files) ELSE unsignedHash
    /\ srcAtHash' = files
    /\ UNCHANGED <<extVars, cfgVars, unsignedR, objectVersion, jobId, signedR,
                   signedHash, functionVersion, defers, scheduled, cleaned,
                   headOut, upToDate, prev, deployed>>
    /\ UNCHANGED nonPipeVars

\* (variant: the answer of the freshness check is not acted upon)
IsUpToDate_NeverStops ==
    /\ pc = "isUpToDate"
    /\ \E output \in HeadOutputs(store, signedKey(Folder)) :
          LET ret == isUpToDate(output, unsignedHash)
          IN /\ headOut' = output
             /\ upToDate' = ret
             /\ trace' = Append(trace, [stage |-> "isUpToDate", ok |-> ret.err = Nil])
             /\ IF ret.err # Nil
                THEN pc' = "defers" /\ result' = ret.err
                     /\ failedStage' = "isUpToDate"
                ELSE pc' = "buildExecutable" /\ UNCHANGED <<result, failedStage>>
    /\ UNCHANGED <<extVars, cfgVars, locVars, defers, scheduled, cleaned,
                   srcAtHash, prev, deployed>>
    /\ UNCHANGED nonPipeVars

\* lines 58-66: the freshness lookup; the run stops here, successfully,
\* when the stored fingerprint is the current one
IsUpToDate ==
    /\ pc = "isUpToDate"
    /\ \E output \in HeadOutputs(store, signedKey(Folder)) :
          LET ret == isUpToDate(output, unsignedHash)
          IN /\ headOut' = output
             /\ upToDate' = ret
             /\ trace' = Append(trace, [stage |-> "isUpToDate", ok |-> ret.err = Nil])
             /\ IF ret.err # Nil
                THEN pc' = "defers" /\ result' = ret.err
                     /\ failedStage' = "isUpToDate"
                ELSE IF ret.val
                THEN pc' = "defers" /\ result' = Nil /\ UNCHANGED failedStage
                ELSE pc' = "buildExecutable" /\ UNCHANGED <<result, failedStage>>
    /\ UNCHANGED <<extVars, cfgVars, locVars, defers, scheduled, cleaned,
                   srcAtHash, prev, deployed>>
    /\ UNCHANGED nonPipeVars

\* (variant: the removal of the executable is not deferred)
BuildExecutable_NoDefer ==
    /\ pc = "buildExecutable"
    /\ \E ok \in BOOLEAN :
          /\ Outcome("buildExecutable", ok, "zipExecutable")
          /\ localExe' = IF ok THEN Compile(files) ELSE localExe
          /\ UNCHANGED <<defers, scheduled>>
    /\ UNCHANGED <<files, store, nextVersion, jobs, lambdaFn, cfgVars, locVars,
                   cleaned, histVars>>
    /\ UNCHANGED nonPipeVars

BuildExecutable ==
    /\ pc = "buildExecutable"
    /\ \E ok \in BOOLEAN :
          /\ Outcome("buildExecutable", ok, "zipExecutable")
          /\ localExe' = IF ok THEN Compile(files) ELSE localExe
          \* line 71: defer d.deleteFile(folder, executablePath)
          /\ IF ok THEN Defer("deleteFile", executablePath(Folder))
             ELSE UNCHANGED <<defers, scheduled>>
    /\ UNCHANGED <<files, store, nextVersion, jobs, lambdaFn, cfgVars, locVars,
                   cleaned, histVars>>
    /\ UNCHANGED nonPipeVars

ZipExecutable ==
    /\ pc = "zipExecutable"
    /\ \E ok \in BOOLEAN :
          \* os.Open(executablePath) fails when the file is not there
          /\ ok => localExe # <<>>
          /\ Outcome("zipExecutable", ok, "sizeExecutable")
          /\ unsignedR' = IF ok THEN zipExecutable(localExe) ELSE unsignedR
    /\ UNCHANGED <<extVars, cfgVars, unsignedHash, objectVersion, jobId, signedR,
                   signedHash, functionVersion, defers, scheduled, cleaned,
                   histVars>>
    /\ UNCHANGED nonPipeVars

SizeExecutable ==
    /\ pc = "sizeExecutable"
    /\ \E ok \in BOOLEAN :
          \* unsignedR1 is a copy of unsignedR
          Outcome("sizeExecutable", ok, "putObject")
    /\ UNCHANGED <<extVars, cfgVars, locVars, defers, scheduled, cleaned,
                   histVars>>
    /\ UNCHANGED nonPipeVars

\* (variant: the unsigned object is not scheduled for deletion)
PutObject_NoDefer ==
    /\ pc = "putObject"
    /\ \E ok \in BOOLEAN :
          /\ Outcome("putObject", ok, "startSigningJob")
          /\ IF ok
             THEN /\ nextVersion' = nextVersion + 1
                  /\ store' = [store EXCEPT ![unsignedKey(Folder)] =
                                  [exists |-> TRUE, body |-> unsignedR,
                                   meta |-> NoMeta, ver |-> nextVersion + 1]]
                  /\ objectVersion' = nextVersion + 1
             ELSE UNCHANGED <<nextVersion, store, objectVersion>>
    /\ UNCHANGED <<files, localExe, jobs, lambdaFn, cfgVars, unsignedHash,
                   unsignedR, jobId, signedR, signedHash, functionVersion,
                   defers, scheduled, cleaned, histVars>>
    /\ UNCHANGED nonPipeVars

\* lines 80-84 and putObject

\* (variant: the unsigned package is uploaded to the signed key)
PutObject_ToSignedKey ==
    /\ pc = "putObject"
    /\ \E ok \in BOOLEAN :
          /\ Outcome("putObject", ok, "startSigningJob")
          /\ IF ok
             THEN /\ nextVersion' = nextVersion + 1
                  /\ store' = [store EXCEPT ![signedKey(Folder)] =
                                  [exists |-> TRUE, body |-> unsignedR,
                                   meta |-> NoMeta, ver |-> nextVersion + 1]]
                  /\ objectVersion' = nextVersion + 1
                  /\ Defer("deleteObject", unsignedKey(Folder))
             ELSE UNCHANGED <<nextVersion, store, objectVersion, defers, scheduled>>
    /\ UNCHANGED <<files, localExe, jobs, lambdaFn, cfgVars, unsignedHash,
                   unsignedR, jobId, signedR, signedHash, functionVersion,
                   cleaned, histVars>>
    /\ UNCHANGED nonPipeVars

PutObject ==
    /\ pc = "putObject"
    /\ \E ok \in BOOLEAN :
          /\ Outcome("putObject", ok, "startSigningJob")
          /\ IF ok
             THEN /\ nextVersion' = nextVersion + 1
                  /\ store' = [store EXCEPT ![unsignedKey(Folder)] =
                                  [exists |-> TRUE, body |-> unsignedR,
                                   meta |-> NoMeta, ver |-> nextVersion + 1]]
                  /\ objectVersion' = nextVersion + 1
                  \* line 84: defer d.deleteObject(folder, unsignedKey)
                  /\ Defer("deleteObject", unsignedKey(Folder))
             ELSE UNCHANGED <<nextVersion, store, objectVersion, defers, scheduled>>
    /\ UNCHANGED <<files, localExe, jobs, lambdaFn, cfgVars, unsignedHash,
                   unsignedR, jobId, signedR, signedHash, functionVersion,
                   cleaned, histVars>>
    /\ UNCHANGED nonPipeVars

\* the job id the signing service hands out next
NewJob == CHOOSE n \in JobNums : jobs[n].status = "none"
                                   /\ \A m \in JobNums : m < n => jobs[m].status # "none"

\* (variant: the run does not wait for the job it started)
StartSigningJob_NoWait ==
    /\ pc = "startSigningJob"
    /\ \E ok \in BOOLEAN :
          /\ Outcome("startSigningJob", ok, "getObject")
          /\ IF ok
             THEN /\ jobId' = NewJob
                  /\ jobs' = [jobs EXCEPT ![NewJob] =
                                [status |-> "inProgress", key |-> unsignedKey(Folder),
                                 ver |-> objectVersion,
                                 body |-> IF store[unsignedKey(Folder)].ver = objectVersion
                                          THEN store[unsignedKey(Folder)].body
                                          ELSE <<>>]]
             ELSE UNCHANGED <<jobId, jobs>>
    /\ UNCHANGED <<files, localExe, store, nextVersion, lambdaFn, cfgVars,
                   unsignedHash, unsignedR, objectVersion, signedR, signedHash,
                   functionVersion, defers, scheduled, cleaned, histVars>>
    /\ UNCHANGED nonPipeVars

\* lines 85-89 and startSigningJob
StartSigningJob ==
    /\ pc = "startSigningJob"
    /\ \E ok \in BOOLEAN :
          /\ Outcome("startSigningJob", ok, "waitForSigningJob")
          /\ IF ok
             THEN /\ jobId' = NewJob
                  \* the service signs the version of the object it was given
                  /\ jobs' = [jobs EXCEPT ![NewJob] =
                                [status |-> "inProgress", key |-> unsignedKey(Folder),
                                 ver |-> objectVersion,
                                 body |-> IF store[unsignedKey(Folder)].ver = objectVersion
                                          THEN store[unsignedKey(Folder)].body
                                          ELSE <<>>]]
             ELSE UNCHANGED <<jobId, jobs>>
    /\ UNCHANGED <<files, localExe, store, nextVersion, lambdaFn, cfgVars,
                   unsignedHash, unsignedR, objectVersion, signedR, signedHash,
                   functionVersion, defers, scheduled, cleaned, histVars>>
    /\ UNCHANGED nonPipeVars

\* The signing service finishes a job: the signed package appears under the
\* staging prefix, named after the job.
SigningJobSucceeds ==
    \E n \in JobNums :
        /\ jobs[n].status = "inProgress"
        /\ jobs' = [jobs EXCEPT ![n].status = "succeeded"]
        /\ store' = [store EXCEPT ![stagingKeyOf(JobName(n))] =
                        [exists |-> TRUE, body |-> SignedBytes(n, jobs[n].body),
                         meta |-> NoMeta, ver |-> 0]]
        /\ UNCHANGED <<files, localExe, nextVersion, lambdaFn, cfgVars, locVars,
                       histVars, pc, result, defers, trace, scheduled, cleaned,
                       failedStage>>
        /\ UNCHANGED nonPipeVars

SigningJobFails ==
    \E n \in JobNums :
        /\ jobs[n].status = "inProgress"
        /\ jobs' = [jobs EXCEPT ![n].status = "failed"]
        /\ UNCHANGED <<files, localExe, store, nextVersion, lambdaFn, cfgVars,
                       locVars, histVars, pc, result, defers, trace, scheduled,
                       cleaned, failedStage>>
        /\ UNCHANGED nonPipeVars

\* (variant: after a failed wait the run submits the signing job again)
WaitForSigningJob_Resubmits ==
    /\ pc = "waitForSigningJob"
    /\ \E ok \in BOOLEAN :
          /\ ok => jobs[jobId].status = "succeeded"
          /\ trace' = Append(trace, [stage |-> "waitForSigningJob", ok |-> ok])
          /\ pc' = IF ok THEN "getObject" ELSE "startSigningJob"
          /\ UNCHANGED <<result, failedStage>>
          /\ IF ok THEN Defer("deleteObject", stagingKey)
             ELSE UNCHANGED <<defers, scheduled>>
    /\ UNCHANGED <<extVars, cfgVars, locVars, cleaned, histVars>>
    /\ UNCHANGED nonPipeVars

\* The waiter returns nil only once the job has succeeded; a failed job, an
\* API error or the 30 s limit makes it return an error.
WaitForSigningJob ==
    /\ pc = "waitForSigningJob"
    /\ \E ok \in BOOLEAN :
          /\ ok => jobs[jobId].status = "succeeded"
          /\ Outcome("waitForSigningJob", ok, "getObject")
          \* line 94: defer d.deleteObject(folder, stagingKey)
          /\ IF ok THEN Defer("deleteObject", stagingKey)
             ELSE UNCHANGED <<defers, scheduled>>
    /\ UNCHANGED <<extVars, cfgVars, locVars, cleaned, histVars>>
    /\ UNCHANGED nonPipeVars


\* (variant: the run downloads the staging object of the first signing job
\* instead of the one named after its own job id)
GetObject_FirstJob ==
    /\ pc = "getObject"
    /\ \E ok \in BOOLEAN :
          /\ ok => store[stagingKeyOf(JobName(1))].exists
          /\ Outcome("getObject", ok, "hashObject")
          /\ signedR' = IF ok THEN store[stagingKeyOf(JobName(1))].body ELSE signedR
          /\ IF ok THEN Defer("Close", <<"signedR", Folder>>)
             ELSE UNCHANGED <<defers, scheduled>>
    /\ UNCHANGED <<extVars, cfgVars, unsignedHash, unsignedR, objectVersion,
                   jobId, signedHash, functionVersion, cleaned, histVars>>
    /\ UNCHANGED nonPipeVars

GetObject ==
    /\ pc = "getObject"
    /\ \E ok \in BOOLEAN :
          /\ ok => store[stagingKey].exists
          /\ Outcome("getObject", ok, "hashObject")
          /\ signedR' = IF ok THEN store[stagingKey].body ELSE signedR
          \* line 99: defer signedR.Close()
          /\ IF ok THEN Defer("Close", <<"signedR", Folder>>)
             ELSE UNCHANGED <<defers, scheduled>>
    /\ UNCHANGED <<extVars, cfgVars, unsignedHash, unsignedR, objectVersion,
                   jobId, signedHash, functionVersion, cleaned, histVars>>
    /\ UNCHANGED nonPipeVars

HashObject ==
    /\ pc = "hashObject"
    /\ \E ok \in BOOLEAN :
          /\ Outcome("hashObject", ok, "copyObject")
          /\ signedHash' = IF ok THEN hashObject(signedR) ELSE signedHash
    /\ UNCHANGED <<extVars, cfgVars, unsignedHash, unsignedR, objectVersion,
                   jobId, signedR, functionVersion, defers, scheduled, cleaned,
                   histVars>>
    /\ UNCHANGED nonPipeVars

\* (variant: the copy keeps the metadata of the staging object instead of
\* replacing it)
CopyObject_KeepsMetadata ==
    /\ pc = "copyObject"
    /\ \E ok \in BOOLEAN :
          /\ ok => store[stagingKey].exists
          /\ Outcome("copyObject", ok,
                     IF noUpdateFunctions THEN "defers" ELSE "updateFunctionCode")
          /\ store' = IF ok
                      THEN [store EXCEPT ![signedKey(Folder)] =
                              [exists |-> TRUE, body |-> store[stagingKey].body,
                               meta |-> store[stagingKey].meta, ver |-> 0]]
                      ELSE store
    /\ UNCHANGED <<files, localExe, nextVersion, jobs, lambdaFn, cfgVars,
                   locVars, defers, scheduled, cleaned, histVars>>
    /\ UNCHANGED nonPipeVars

\* (variant: the function is updated whatever d.noUpdateFunctions says)
CopyObject_AlwaysUpdates ==
    /\ pc = "copyObject"
    /\ \E ok \in BOOLEAN :
          /\ ok => store[stagingKey].exists
          /\ Outcome("copyObject", ok, "updateFunctionCode")
          /\ store' = IF ok
                      THEN [store EXCEPT ![signedKey(Folder)] =
                              [exists |-> TRUE, body |-> store[stagingKey].body,
                               meta |-> StoredMeta(runMetadata(unsignedHash, signedHash)),
                               ver |-> 0]]
                      ELSE store
    /\ UNCHANGED <<files, localExe, nextVersion, jobs, lambdaFn, cfgVars,
                   locVars, defers, scheduled, cleaned, histVars>>
    /\ UNCHANGED nonPipeVars

\* lines 104-114 and copyObject: the signed package is copied to the signed
\* key, its metadata replaced by the two fingerprints
CopyObject ==
    /\ pc = "copyObject"
    /\ \E ok \in BOOLEAN :
          /\ ok => store[stagingKey].exists
          /\ Outcome("copyObject", ok,
                     IF noUpdateFunctions THEN "defers" ELSE "updateFunctionCode")
          /\ store' = IF ok
                      THEN [store EXCEPT ![signedKey(Folder)] =
                              [exists |-> TRUE, body |-> store[stagingKey].body,
                               meta |-> StoredMeta(runMetadata(unsignedHash, signedHash)),
                               ver |-> 0]]
                      ELSE store
    /\ UNCHANGED <<files, localExe, nextVersion, jobs, lambdaFn, cfgVars,
                   locVars, defers, scheduled, cleaned, histVars>>
    /\ UNCHANGED nonPipeVars

UpdateFunctionCode ==
    /\ pc = "updateFunctionCode"
    /\ \E ok \in BOOLEAN :
          /\ ok => store[signedKey(Folder)].exists
          /\ Outcome("updateFunctionCode", ok, "waitForFunctionUpdate")
          /\ lambdaFn' = IF ok
                         THEN [lambdaFn EXCEPT !.code = store[signedKey(Folder)].body,
                                               !.state = "inProgress"]
                         ELSE lambdaFn
    /\ UNCHANGED <<files, localExe, store, nextVersion, jobs, cfgVars, locVars,
                   defers, scheduled, cleaned, histVars>>
    /\ UNCHANGED nonPipeVars

\* The Lambda service finishes applying the new code.
FunctionUpdateCompletes ==
    /\ lambdaFn.state = "inProgress"
    /\ lambdaFn' = [lambdaFn EXCEPT !.state = "ok"]
    /\ UNCHANGED <<files, localExe, store, nextVersion, jobs, cfgVars, locVars,
                   histVars, pc, result, defers, trace, scheduled, cleaned,
                   failedStage>>
    /\ UNCHANGED nonPipeVars

WaitForFunctionUpdate ==
    /\ pc = "waitForFunctionUpdate"
    /\ \E ok \in BOOLEAN :
          /\ ok => lambdaFn.state = "ok"
          /\ Outcome("waitForFunctionUpdate", ok, "publishLambdaVersion")
    /\ UNCHANGED <<extVars, cfgVars, locVars, defers, scheduled, cleaned,
                   histVars>>
    /\ UNCHANGED nonPipeVars

\* (variant: the alias is updated although publishing the version failed)
PublishLambdaVersion_IgnoresError ==
    /\ pc = "publishLambdaVersion"
    /\ \E ok \in BOOLEAN :
          /\ ok => signedHash = Digest(lambdaFn.code)
          /\ trace' = Append(trace, [stage |-> "publishLambdaVersion", ok |-> ok])
          /\ pc' = "updateFunctionAlias"
          /\ UNCHANGED <<result, failedStage>>
          \* CodeSha256: aws.String(hash), hash being signedHash (line 123)
          /\ IF ok
             THEN /\ lambdaFn' = [lambdaFn EXCEPT !.version = lambdaFn.version + 1,
                                                  !.codeSha256 = signedHash]
                  /\ functionVersion' = lambdaFn.version + 1
             ELSE /\ lambdaFn' = [lambdaFn EXCEPT !.codeSha256 = signedHash]
                  /\ UNCHANGED functionVersion
    /\ UNCHANGED <<files, localExe, store, nextVersion, jobs, cfgVars,
                   unsignedHash, unsignedR, objectVersion, jobId, signedR,
                   signedHash, defers, scheduled, cleaned, histVars>>
    /\ UNCHANGED nonPipeVars

\* lines 123-126 and publishLambdaVersion
PublishLambdaVersion ==
    /\ pc = "publishLambdaVersion"
    /\ \E ok \in BOOLEAN :
          \* the service publishes only when CodeSha256 matches its code
          /\ ok => signedHash = Digest(lambdaFn.code)
          /\ Outcome("publishLambdaVersion", ok, "updateFunctionAlias")
          \* CodeSha256: aws.String(hash), hash being signedHash (line 123)
          /\ IF ok
             THEN /\ lambdaFn' = [lambdaFn EXCEPT !.version = lambdaFn.version + 1,
                                                  !.codeSha256 = signedHash]
                  /\ functionVersion' = lambdaFn.version + 1
             ELSE /\ lambdaFn' = [lambdaFn EXCEPT !.codeSha256 = signedHash]
                  /\ UNCHANGED functionVersion
    /\ UNCHANGED <<files, localExe, store, nextVersion, jobs, cfgVars,
                   unsignedHash, unsignedR, objectVersion, jobId, signedR,
                   signedHash, defers, scheduled, cleaned, histVars>>
    /\ UNCHANGED nonPipeVars

\* (variant: the alias is pointed at $LATEST, not at the published version)
UpdateFunctionAlias_Latest ==
    /\ pc = "updateFunctionAlias"
    /\ \E ok \in BOOLEAN :
          /\ Outcome("updateFunctionAlias", ok, "defers")
          /\ lambdaFn' = IF ok THEN [lambdaFn EXCEPT !.alias = 0]
                         ELSE lambdaFn
          /\ deployed' = IF ok THEN deployed \cup {unsignedHash} ELSE deployed
    /\ UNCHANGED <<files, localExe, store, nextVersion, jobs, cfgVars, locVars,
                   defers, scheduled, cleaned, headOut, upToDate, srcAtHash, prev>>
    /\ UNCHANGED nonPipeVars

UpdateFunctionAlias ==
    /\ pc = "updateFunctionAlias"
    /\ \E ok \in BOOLEAN :
          /\ Outcome("updateFunctionAlias", ok, "defers")
          /\ lambdaFn' = IF ok THEN [lambdaFn EXCEPT !.alias = functionVersion]
                         ELSE lambdaFn
          /\ deployed' = IF ok THEN deployed \cup {unsignedHash} ELSE deployed
    /\ UNCHANGED <<files, localExe, store, nextVersion, jobs, cfgVars, locVars,
                   defers, scheduled, cleaned, headOut, upToDate, srcAtHash, prev>>
    /\ UNCHANGED nonPipeVars

\* ------------------------------------------------------------------------
\* Deferred calls: run once the return value is fixed, last registered
\* first; what they return is discarded.
\* ------------------------------------------------------------------------
Ran(ok) == cleaned' = Append(cleaned, [fn |-> Head(defers).fn,
                                       arg |-> Head(defers).arg, ok |-> ok])

DeleteFile ==
    /\ pc = "defers" /\ defers # <<>> /\ Head(defers).fn = "deleteFile"
    /\ \E ok \in BOOLEAN :
          /\ ok => localExe # <<>>
          /\ localExe' = IF ok THEN <<>> ELSE localExe
          /\ Ran(ok)
    /\ defers' = Tail(defers)
    /\ UNCHANGED <<files, store, nextVersion, jobs, lambdaFn, cfgVars, locVars,
                   histVars, pc, result, trace, scheduled, failedStage>>
    /\ UNCHANGED nonPipeVars

\* (variant: the error of a failed deletion becomes the result of the run)
DeleteObject_Escalates ==
    /\ pc = "defers" /\ defers # <<>> /\ Head(defers).fn = "deleteObject"
    /\ \E ok \in BOOLEAN :
          /\ store' = IF ok THEN [store EXCEPT ![Head(defers).arg] = NoObject]
                      ELSE store
          /\ result' = IF ok THEN result ELSE Err("deleteObject")
          /\ Ran(ok)
    /\ defers' = Tail(defers)
    /\ UNCHANGED <<files, localExe, nextVersion, jobs, lambdaFn, cfgVars,
                   locVars, histVars, pc, trace, scheduled, failedStage>>
    /\ UNCHANGED nonPipeVars

\* deferred d.deleteObject(folder, key)
DeleteObject ==
    /\ pc = "defers" /\ defers # <<>> /\ Head(defers).fn = "deleteObject"
    /\ \E ok \in BOOLEAN :
          /\ store' = IF ok THEN [store EXCEPT ![Head(defers).arg] = NoObject]
                      ELSE store
          /\ Ran(ok)
    /\ defers' = Tail(defers)
    /\ UNCHANGED <<files, localExe, nextVersion, jobs, lambdaFn, cfgVars,
                   locVars, histVars, pc, result, trace, scheduled, failedStage>>
    /\ UNCHANGED nonPipeVars

CloseSignedR ==
    /\ pc = "defers" /\ defers # <<>> /\ Head(defers).fn = "Close"
    /\ Ran(TRUE)
    /\ defers' = Tail(defers)
    /\ UNCHANGED <<extVars, cfgVars, locVars, histVars, pc, result, trace,
                   scheduled, failedStage>>
    /\ UNCHANGED nonPipeVars

\* data.run hands its result to the caller
Return ==
    /\ pc = "defers" /\ defers = <<>>
    /\ pc' = "returned"
    /\ UNCHANGED <<extVars, cfgVars, locVars, histVars, result, defers, trace,
                   scheduled, cleaned, failedStage>>
    /\ UNCHANGED nonPipeVars

\* Somebody edits one source file of the folder between two invocations.
EditSource ==
    /\ pc \in {"idle", "returned"}
    /\ runs < MaxRuns
    /\ \E n \in EditableFiles, c \in Contents :
          /\ c # files[n]
          /\ files' = [files EXCEPT ![n] = c]
    /\ UNCHANGED <<localExe, store, nextVersion, jobs, lambdaFn, cfgVars,
                   locVars, histVars, pc, result, defers, trace, scheduled,
                   cleaned, failedStage>>
    /\ UNCHANGED nonPipeVars

Next ==
    \/ StartRun
    \/ HashSourceCode
    \/ IsUpToDate
    \/ BuildExecutable
    \/ ZipExecutable
    \/ SizeExecutable
    \/ PutObject
    \/ StartSigningJob
    \/ SigningJobSucceeds
    \/ SigningJobFails
    \/ WaitForSigningJob
    \/ GetObject
    \/ HashObject
    \/ CopyObject
    \/ UpdateFunctionCode
    \/ FunctionUpdateCompletes
    \/ WaitForFunctionUpdate
    \/ PublishLambdaVersion
    \/ UpdateFunctionAlias
    \/ DeleteFile
    \/ DeleteObject
    \/ CloseSignedR
    \/ Return
    \/ EditSource

Spec == Init /\ [][Next]_vars

PrefixSpec == PrefixInit /\ [][Next]_vars

\* ------------------------------------------------------------------------
\* main(): the folders to deploy, the chunk of this instance, one goroutine
\* per folder, and the collection of their results.
\* ------------------------------------------------------------------------
\* Most *.go files a folder of the tree has.
MaxGoFiles == 2

\* Largest -num-instances explored.
MaxInstances == 2

TreeFolders == {"alpha", "beta", "internal"}

Trees == [TreeFolders -> 0..MaxGoFiles]

FolderFlags == {<<>>, <<"alpha">>, <<"beta", "alpha">>}

\* -instance and -num-instances when neither is passed: flag.Int(..., 0, ...)
DefaultPartition == [on |-> TRUE, instance |-> 0, numInstances |-> 0]

Partitions ==
    {NoPartition, DefaultPartition} \cup
    {[on |-> TRUE, instance |-> i, numInstances |-> k] :
        k \in 1..MaxInstances, i \in 0..(MaxInstances - 1)}

\* what d.run(folder) hands back to its goroutine
RunResults == {Nil, Err("buildExecutable")}

\* lexicographic rank of the folder names
FolderRank(name) == IF name = "alpha" THEN 1 ELSE IF name = "beta" THEN 2 ELSE 3

RECURSIVE InsertFolder(_, _)
InsertFolder(name, sorted) ==
    IF sorted = <<>> THEN <<name>>
    ELSE IF FolderRank(name) <= FolderRank(Head(sorted)) THEN <<name>> \o sorted
    ELSE <<Head(sorted)>> \o InsertFolder(name, Tail(sorted))

\* sort.Strings / sort.Sort(sort.StringSlice(...)) on folder names
RECURSIVE SortFolders(_)
SortFolders(names) ==
    IF names = <<>> THEN <<>>
    ELSE InsertFolder(Head(names), SortFolders(Tail(names)))

\* filepath.Glob("*/*.go"), each match cut down to its directory: one entry
\* per *.go file of every folder
GoFileDirs(t) ==
    LET RECURSIVE Copies(_, _)
        Copies(d, n) == IF n = 0 THEN <<>> ELSE <<d>> \o Copies(d, n - 1)
        RECURSIVE List(_)
        List(S) == IF S = {} THEN <<>>
                   ELSE LET d == CHOOSE x \in S : TRUE
                        IN Copies(d, t[d]) \o List(S \ {d})
    IN List(DOMAIN t)

lambdaFolders(t) ==
    SortFolders(SelectSeq(GoFileDirs(t), LAMBDA dir : dir # "internal"))

\* Returns true if the slice contains the string.
contains(strs, match) == \E i \in 1..Len(strs) : strs[i] = match

\* for i := 0; i < len(folders); i += chunkSize { ... folders[i:end] ... }
RECURSIVE Chunks(_, _, _)
Chunks(fs, chunkSize, i) ==
    IF i >= Len(fs) THEN <<>>
    ELSE LET end == IF i + chunkSize > Len(fs) THEN Len(fs) ELSE i + chunkSize
         IN <<SubSeq(fs, i + 1, end)>> \o Chunks(fs, chunkSize, i + chunkSize)

inVars == <<tree, foldersFlag, partition, blocked>>

\* One builder process starts: main() is about to look for the folders.
DispInit ==
    /\ PipeInit(NoObject)
    /\ tree \in Trees
    /\ foldersFlag \in FolderFlags
    /\ partition \in {q \in Partitions :
                        q = DefaultPartition \/ q.instance < q.numInstances}
    \* every external call returns
    /\ blocked = {}
    /\ mainPc = "start"
    /\ allFolders = <<>>
    /\ folders = <<>>
    /\ chunks = <<>>
    /\ selected = <<>>
    /\ task = <<>>
    /\ taskErr = <<>>
    /\ launched = 0
    /\ results = <<>>
    /\ closed = FALSE
    /\ numResults = 0
    /\ failures = <<>>
    /\ collected = <<>>
    /\ took = FALSE
    /\ exit = "none"
    /\ panicMsg = <<>>
    /\ WgIdle
    /\ FpIdle

\* allFolders and folders: every folder found, or the folders of -folders
\* when each of them was found

\* (variant: an allow-list entry that is not a Lambda folder is left out
\* instead of ending the process)
SelectFolders_SkipsUnknown ==
    /\ mainPc = "start"
    /\ allFolders' = lambdaFolders(tree)
    /\ IF foldersFlag # <<>>
       THEN /\ folders' = SelectSeq(foldersFlag,
                                    LAMBDA s : contains(lambdaFolders(tree), s))
            /\ mainPc' = IF partition.on THEN "chunk" ELSE "make"
            /\ UNCHANGED exit
       ELSE /\ folders' = allFolders'
            /\ mainPc' = IF partition.on THEN "chunk" ELSE "make"
            /\ UNCHANGED exit
    /\ selected' = folders'
    /\ UNCHANGED <<inVars, chunks, task, taskErr, launched, results, closed,
                   numResults, failures, collected, took, panicMsg>>
    /\ UNCHANGED nonDispVars

SelectFolders ==
    /\ mainPc = "start"
    /\ allFolders' = lambdaFolders(tree)
    /\ IF foldersFlag # <<>>
       THEN IF \E i \in 1..Len(foldersFlag) : ~contains(allFolders', foldersFlag[i])
            THEN /\ exit' = "panic: not a Lambda folder"
                 /\ mainPc' = "exited"
                 /\ UNCHANGED folders
            ELSE /\ folders' = foldersFlag
                 /\ mainPc' = IF partition.on THEN "chunk" ELSE "make"
                 /\ UNCHANGED exit
       ELSE /\ folders' = allFolders'
            /\ mainPc' = IF partition.on THEN "chunk" ELSE "make"
            /\ UNCHANGED exit
    /\ selected' = folders'
    /\ UNCHANGED <<inVars, chunks, task, taskErr, launched, results, closed,
                   numResults, failures, collected, took, panicMsg>>
    /\ UNCHANGED nonDispVars

\* the folders are cut into chunks and the instance takes its own
SelectChunk ==
    /\ mainPc = "chunk"
    /\ IF partition.numInstances = 0
       THEN \* chunkSize := (len(folders) + 0 - 1) / 0
            /\ exit' = "panic: integer divide by zero"
            /\ mainPc' = "exited"
            /\ UNCHANGED <<folders, chunks>>
       ELSE /\ LET chunkSize == (Len(folders) + partition.numInstances - 1)
                                    \div partition.numInstances
               IN chunks' = Chunks(folders, chunkSize, 0)
            /\ IF partition.instance < Len(chunks')
               THEN /\ folders' = chunks'[partition.instance + 1]
                    /\ mainPc' = "make"
                    /\ UNCHANGED exit
               ELSE /\ exit' = "panic: index out of range"
                    /\ mainPc' = "exited"
                    /\ UNCHANGED folders
    /\ UNCHANGED <<inVars, allFolders, selected, task, taskErr, launched,
                   results, closed, numResults, failures, collected, took,
                   panicMsg>>
    /\ UNCHANGED nonDispVars

\* results := make(chan result, len(folders))
MakeResults ==
    /\ mainPc = "make"
    /\ results' = <<>>
    /\ closed' = FALSE
    /\ task' = [i \in 1..Len(folders) |-> "notStarted"]
    /\ taskErr' = [i \in 1..Len(folders) |-> Nil]
    /\ launched' = 0
    /\ mainPc' = "dispatch"
    /\ UNCHANGED <<inVars, allFolders, folders, chunks, selected, numResults,
                   failures, collected, took, exit, panicMsg>>
    /\ UNCHANGED nonDispVars


\* (variant: a goroutine is started only when the ones started before it have
\* delivered their results)
Launch_Sequential ==
    /\ mainPc = "dispatch"
    /\ launched < Len(folders)
    /\ \A i \in 1..launched : task[i] = "done"
    /\ launched' = launched + 1
    /\ task' = [task EXCEPT ![launched + 1] = "running"]
    /\ UNCHANGED <<inVars, mainPc, allFolders, folders, chunks, selected,
                   taskErr, results, closed, numResults, failures, collected,
                   took, exit, panicMsg>>
    /\ UNCHANGED nonDispVars

\* one turn of the loop over the folders: go func(folder string) {...}(folder)
Launch ==
    /\ mainPc = "dispatch"
    /\ launched < Len(folders)
    /\ launched' = launched + 1
    /\ task' = [task EXCEPT ![launched + 1] = "running"]
    /\ UNCHANGED <<inVars, mainPc, allFolders, folders, chunks, selected,
                   taskErr, results, closed, numResults, failures, collected,
                   took, exit, panicMsg>>
    /\ UNCHANGED nonDispVars

\* the loop is over: numResults := 0; failures := []string{}
StartCollect ==
    /\ mainPc = "dispatch"
    /\ launched = Len(folders)
    /\ numResults' = 0
    /\ failures' = <<>>
    /\ mainPc' = "collect"
    /\ UNCHANGED <<inVars, allFolders, folders, chunks, selected, task,
                   taskErr, launched, results, closed, collected, took, exit,
                   panicMsg>>
    /\ UNCHANGED nonDispVars

\* (variant: a pipeline that fails takes the whole process down)
RunFolder_FailFast ==
    /\ \E i \in 1..Len(task), r \in RunResults :
          /\ task[i] = "running"
          \* d.run(folder) returns
          /\ i \notin blocked
          /\ taskErr' = [taskErr EXCEPT ![i] = r]
          /\ task' = [task EXCEPT ![i] = "done"]
          /\ IF closed \/ r # Nil
             THEN /\ exit' = "panic: pipeline failed"
                  /\ mainPc' = "exited"
                  /\ UNCHANGED results
             ELSE /\ Len(results) < Len(folders)
                  /\ results' = Append(results, [string |-> folders[i],
                                                 error |-> r, task |-> i])
                  /\ UNCHANGED <<exit, mainPc>>
    /\ UNCHANGED <<inVars, allFolders, folders, chunks, selected, launched,
                   closed, numResults, failures, collected, took, panicMsg>>
    /\ UNCHANGED nonDispVars



\* (variant: the channel has room for one message fewer than there are
\* folders)
RunFolder_SmallChannel ==
    /\ \E i \in 1..Len(task), r \in RunResults :
          /\ task[i] = "running"
          /\ i \notin blocked
          /\ taskErr' = [taskErr EXCEPT ![i] = r]
          /\ task' = [task EXCEPT ![i] = "done"]
          /\ IF closed
             THEN /\ exit' = "panic: send on closed channel"
                  /\ mainPc' = "exited"
                  /\ UNCHANGED results
             ELSE /\ Len(results) < Len(folders) - 1
                  /\ results' = Append(results, [string |-> folders[i],
                                                 error |-> r, task |-> i])
                  /\ UNCHANGED <<exit, mainPc>>
    /\ UNCHANGED <<inVars, allFolders, folders, chunks, selected, launched,
                   closed, numResults, failures, collected, took, panicMsg>>
    /\ UNCHANGED nonDispVars

\* (variant: the pipelines share a lock, so a goroutine is inside d.run only
\* when the ones launched before it have returned)
RunFolder_Serialized ==
    /\ \E i \in 1..Len(task), r \in RunResults :
          /\ task[i] = "running"
          /\ i \notin blocked
          /\ \A k \in 1..(i - 1) : task[k] = "done"
          /\ taskErr' = [taskErr EXCEPT ![i] = r]
          /\ task' = [task EXCEPT ![i] = "done"]
          /\ IF closed
             THEN /\ exit' = "panic: send on closed channel"
                  /\ mainPc' = "exited"
                  /\ UNCHANGED results
             ELSE /\ Len(results) < Len(folders)
                  /\ results' = Append(results, [string |-> folders[i],
                                                 error |-> r, task |-> i])
                  /\ UNCHANGED <<exit, mainPc>>
    /\ UNCHANGED <<inVars, allFolders, folders, chunks, selected, launched,
                   closed, numResults, failures, collected, took, panicMsg>>
    /\ UNCHANGED nonDispVars

\* the goroutine of a folder: results <- result{folder, d.run(folder)}
RunFolder ==
    /\ \E i \in 1..Len(task), r \in RunResults :
          /\ task[i] = "running"
          \* d.run(folder) returns
          /\ i \notin blocked
          /\ taskErr' = [taskErr EXCEPT ![i] = r]
          /\ task' = [task EXCEPT ![i] = "done"]
          /\ IF closed
             THEN /\ exit' = "panic: send on closed channel"
                  /\ mainPc' = "exited"
                  /\ UNCHANGED results
             ELSE \* there is room: the channel holds len(folders) messages
                  /\ Len(results) < Len(folders)
                  /\ results' = Append(results, [string |-> folders[i],
                                                 error |-> r, task |-> i])
                  /\ UNCHANGED <<exit, mainPc>>
    /\ UNCHANGED <<inVars, allFolders, folders, chunks, selected, launched,
                   closed, numResults, failures, collected, took, panicMsg>>
    /\ UNCHANGED nonDispVars

\* (variant: the channel is closed one result too early)
Receive_ClosesEarly ==
    /\ mainPc = "collect"
    /\ results # <<>>
    /\ results' = Tail(results)
    /\ numResults' = numResults + 1
    /\ failures' = IF Head(results).error # Nil
                   THEN Append(failures, Head(results).string)
                   ELSE failures
    /\ collected' = Append(collected, Head(results).task)
    /\ closed' = (closed \/ numResults + 2 >= Len(folders))
    /\ UNCHANGED <<inVars, mainPc, allFolders, folders, chunks, selected, task,
                   taskErr, launched, took, exit, panicMsg>>
    /\ UNCHANGED nonDispVars

\* one turn of "for result := range results"
Receive ==
    /\ mainPc = "collect"
    /\ results # <<>>
    /\ results' = Tail(results)
    /\ numResults' = numResults + 1
    /\ failures' = IF Head(results).error # Nil
                   THEN Append(failures, Head(results).string)
                   ELSE failures
    /\ collected' = Append(collected, Head(results).task)
    /\ closed' = (closed \/ numResults + 1 = Len(folders))
    /\ UNCHANGED <<inVars, mainPc, allFolders, folders, chunks, selected, task,
                   taskErr, launched, took, exit, panicMsg>>
    /\ UNCHANGED nonDispVars

\* the channel is closed and empty: the range loop ends
RangeEnds ==
    /\ mainPc = "collect"
    /\ results = <<>>
    /\ closed
    /\ mainPc' = "took"
    /\ UNCHANGED <<inVars, allFolders, folders, chunks, selected, task,
                   taskErr, launched, results, closed, numResults, failures,
                   collected, took, exit, panicMsg>>
    /\ UNCHANGED nonDispVars

\* main() waits on the open, empty channel and no goroutine is left to send:
\* the Go runtime ends the process ("all goroutines are asleep - deadlock!")
AllAsleep ==
    /\ mainPc = "collect"
    /\ results = <<>>
    /\ ~closed
    /\ \A i \in 1..Len(task) : task[i] = "done"
    /\ exit' = "fatal error: deadlock"
    /\ mainPc' = "exited"
    /\ UNCHANGED <<inVars, allFolders, folders, chunks, selected, task,
                   taskErr, launched, results, closed, numResults, failures,
                   collected, took, panicMsg>>
    /\ UNCHANGED nonDispVars

\* (variant: the failures are reported in the order of their arrival)
Report_Unsorted ==
    /\ mainPc = "took"
    /\ took' = TRUE
    /\ IF Len(failures) # 0
       THEN /\ panicMsg' = failures
            /\ exit' = "panic: failures"
       ELSE /\ exit' = "ok"
            /\ UNCHANGED panicMsg
    /\ mainPc' = "exited"
    /\ UNCHANGED <<inVars, allFolders, folders, chunks, selected, task,
                   taskErr, launched, results, closed, numResults, failures,
                   collected>>
    /\ UNCHANGED nonDispVars

\* "Took ..." is printed; with failures, they are sorted and main() panics
Report ==
    /\ mainPc = "took"
    /\ took' = TRUE
    /\ IF Len(failures) # 0
       THEN /\ panicMsg' = SortFolders(failures)
            /\ exit' = "panic: failures"
       ELSE /\ exit' = "ok"
            /\ UNCHANGED panicMsg
    /\ mainPc' = "exited"
    /\ UNCHANGED <<inVars, allFolders, folders, chunks, selected, task,
                   taskErr, launched, results, closed, numResults, failures,
                   collected>>
    /\ UNCHANGED nonDispVars

DispNext ==
    \/ SelectFolders
    \/ SelectChunk
    \/ MakeResults
    \/ Launch
    \/ StartCollect
    \/ RunFolder
    \/ Receive
    \/ RangeEnds
    \/ AllAsleep
    \/ Report

DispSpec == DispInit /\ [][DispNext]_vars

\* ------------------------------------------------------------------------
\* The older main(): one goroutine per folder under a sync.WaitGroup, the
\* pipeline written out in the goroutine. Its first stage assigns the err
\* of main() ("err = buildExecutable(...)"); from zipExecutable on, err is
\* a variable of the goroutine ("unsignedR, err := ...").
\* ------------------------------------------------------------------------
WgFolderLists == {<<"alpha">>, <<"alpha", "beta">>, <<"alpha", "beta", "gamma">>}

\* what buildExecutable returns
BuildResults == {Nil, Err("buildExecutable")}

\* main() has its folders, and its err is nil after lambdaFolders and
\* LoadDefaultConfig succeeded
WgInit ==
    /\ PipeInit(NoObject)
    /\ DispIdle
    /\ wgFolders \in WgFolderLists
    /\ wgMain = "launching"
    /\ wgPc = [i \in 1..Len(wgFolders) |-> "notStarted"]
    /\ wgBuilt = [i \in 1..Len(wgFolders) |-> "none"]
    /\ wgTreated = [i \in 1..Len(wgFolders) |-> "none"]
    /\ wgCounter = 0
    /\ err = Nil
    /\ FpIdle

\* one turn of the loop: wg.Add(1); go func(folder string) {...}(folder)
WgLaunch ==
    /\ wgMain = "launching"
    /\ \E i \in 1..Len(wgFolders) :
          /\ wgPc[i] = "notStarted"
          /\ \A k \in 1..(i - 1) : wgPc[k] # "notStarted"
          /\ wgPc' = [wgPc EXCEPT ![i] = "buildExecutable"]
          /\ wgCounter' = wgCounter + 1
          /\ wgMain' = IF i = Len(wgFolders) THEN "waiting" ELSE "launching"
    /\ UNCHANGED <<wgFolders, wgBuilt, wgTreated, err>>
    /\ UNCHANGED nonWgVars

\* err = buildExecutable(executablePath, folder, environ)
WgBuildExecutable ==
    \E i \in 1..Len(wgFolders) :
        /\ wgPc[i] = "buildExecutable"
        /\ \E r \in BuildResults :
              /\ wgBuilt' = [wgBuilt EXCEPT ![i] = r]
              /\ err' = r
        /\ wgPc' = [wgPc EXCEPT ![i] = "ifErr"]
        /\ UNCHANGED <<wgFolders, wgMain, wgTreated, wgCounter>>
        /\ UNCHANGED nonWgVars

\* if err != nil { ...Failed to build executable...; return }
\* defer os.Remove(executablePath)
WgIfErr ==
    \E i \in 1..Len(wgFolders) :
        /\ wgPc[i] = "ifErr"
        /\ IF err # Nil
           THEN /\ wgTreated' = [wgTreated EXCEPT ![i] = "failed"]
                /\ wgPc' = [wgPc EXCEPT ![i] = "done"]
                /\ wgCounter' = wgCounter - 1
           ELSE /\ wgTreated' = [wgTreated EXCEPT ![i] = "built"]
                /\ wgPc' = [wgPc EXCEPT ![i] = "zipExecutable"]
                /\ UNCHANGED wgCounter
        /\ UNCHANGED <<wgFolders, wgMain, wgBuilt, err>>
        /\ UNCHANGED nonWgVars

\* zipExecutable and the stages after it, on variables of the goroutine,
\* then the deferred wg.Done()
WgRest ==
    \E i \in 1..Len(wgFolders) :
        /\ wgPc[i] = "zipExecutable"
        /\ wgPc' = [wgPc EXCEPT ![i] = "done"]
        /\ wgCounter' = wgCounter - 1
        /\ UNCHANGED <<wgFolders, wgMain, wgBuilt, wgTreated, err>>
        /\ UNCHANGED nonWgVars

\* wg.Wait() returns and main() ends
WgWait ==
    /\ wgMain = "waiting"
    /\ wgCounter = 0
    /\ wgMain' = "returned"
    /\ UNCHANGED <<wgFolders, wgPc, wgBuilt, wgTreated, wgCounter, err>>
    /\ UNCHANGED nonWgVars

WgNext ==
    \/ WgLaunch
    \/ WgBuildExecutable
    \/ WgIfErr
    \/ WgRest
    \/ WgWait

WgSpec == WgInit /\ [][WgNext]_vars

\* ------------------------------------------------------------------------
\* hashSourceCode on its own: a folder with any files, listed by the file
\* system in any order, some of them unreadable, hashed, edited and hashed
\* again.
\* ------------------------------------------------------------------------
\* Longest file, in bytes.
MaxFileLen == 1

\* Calls of hashSourceCode in one behaviour.
MaxCalls == 2

Bytes == {1, 2}

FpNames == {"go.mod", "main.go", "notes.txt", "util.go"}

FpContents == UNION {[1..n -> Bytes] : n \in 0..MaxFileLen}

\* the folders: any of the names, with any contents
FpFolders == UNION {[S -> FpContents] : S \in SUBSET FpNames}

\* the names of a folder that a pattern matches
Matches(pattern, fs) ==
    IF pattern = "go.*" THEN DOMAIN fs \cap {"go.mod"}
    ELSE DOMAIN fs \cap {"main.go", "util.go"}

\* the orders in which a set of names can be listed
Listings(S) ==
    {l \in [1..Cardinality(S) -> S] : \A i, j \in 1..Cardinality(S) : l[i] = l[j] => i = j}

\* the first file of the list that cannot be opened or read, 0 if none
FirstUnreadable(filenames, unreadable) ==
    IF \E i \in 1..Len(filenames) : filenames[i] \in unreadable
    THEN CHOOSE i \in 1..Len(filenames) :
            /\ filenames[i] \in unreadable
            /\ \A k \in 1..(i - 1) : filenames[k] \notin unreadable
    ELSE 0

\* (variant: the files are hashed in the order in which they were listed)
hashSourceCodeIn_Unsorted(a, b, fs, unreadable) ==
    LET filenames == a \o b
        bad == FirstUnreadable(filenames, unreadable)
    IN IF bad = 0
       THEN [hash |-> Digest(CopyAll(filenames, fs)), err |-> Nil]
       ELSE [hash |-> <<>>, err |-> Err("hashSourceCode " \o filenames[bad])]

\* hashSourceCode on the folder fs, a and b being what the two Glob calls
\* returned: ("", err) at the first file that cannot be opened or read
hashSourceCodeIn(a, b, fs, unreadable) ==
    LET filenames == SortStrings(a \o b)
        bad == FirstUnreadable(filenames, unreadable)
    IN IF bad = 0
       THEN [hash |-> Digest(CopyAll(filenames, fs)), err |-> Nil]
       ELSE [hash |-> <<>>, err |-> Err("hashSourceCode " \o filenames[bad])]

FpInit ==
    /\ PipeInit(NoObject)
    /\ DispIdle
    /\ WgIdle
    /\ fpFiles \in FpFolders
    /\ fpUnreadable \in {U \in SUBSET FpNames : Cardinality(U) <= 2}
    /\ fpCalls = 0
    /\ fpEdits = 0
    /\ fpOut = NoFingerprint
    /\ fpPrevOut = NoFingerprint
    /\ fpHashed = [n \in {} |-> <<>>]
    /\ fpPrevHashed = [n \in {} |-> <<>>]
    /\ fpListing = <<>>
    /\ fpPrevListing = <<>>

\* one call of hashSourceCode(folder)
FpHashSourceCode ==
    /\ fpCalls < MaxCalls
    /\ \E a \in Listings(Matches("go.*", fpFiles)),
          b \in Listings(Matches("*.go", fpFiles)) :
          /\ fpOut' = hashSourceCodeIn(a, b, fpFiles, fpUnreadable)
          /\ fpListing' = a \o b
    /\ fpPrevOut' = fpOut
    /\ fpPrevListing' = fpListing
    /\ fpHashed' = fpFiles
    /\ fpPrevHashed' = fpHashed
    /\ fpCalls' = fpCalls + 1
    /\ fpEdits' = 0
    /\ UNCHANGED <<fpFiles, fpUnreadable>>
    /\ UNCHANGED nonFpVars

\* between two calls, one byte of one file of the folder is changed
FpChangeByte ==
    /\ fpCalls = 1
    /\ fpEdits = 0
    /\ \E n \in DOMAIN fpFiles :
          \E k \in 1..Len(fpFiles[n]), byte \in Bytes :
             /\ byte # fpFiles[n][k]
             /\ fpFiles' = [fpFiles EXCEPT ![n] = [fpFiles[n] EXCEPT ![k] = byte]]
    /\ fpEdits' = 1
    /\ UNCHANGED <<fpUnreadable, fpCalls, fpOut, fpPrevOut, fpHashed,
                   fpPrevHashed, fpListing, fpPrevListing>>
    /\ UNCHANGED nonFpVars

\* between two calls, the last byte of one matched file is moved to the
\* start of the matched file that follows it in sorted order
FpMoveByte ==
    /\ fpCalls = 1
    /\ fpEdits = 0
    /\ \E a, b \in Matches("go.*", fpFiles) \cup Matches("*.go", fpFiles) :
          /\ Rank(a) < Rank(b)
          /\ \A c \in Matches("go.*", fpFiles) \cup Matches("*.go", fpFiles) :
                ~(Rank(a) < Rank(c) /\ Rank(c) < Rank(b))
          /\ fpFiles[a] # <<>>
          /\ fpFiles' = [fpFiles EXCEPT
                           ![a] = SubSeq(fpFiles[a], 1, Len(fpFiles[a]) - 1),
                           ![b] = <<fpFiles[a][Len(fpFiles[a])]>> \o fpFiles[b]]
    /\ fpEdits' = 1
    /\ UNCHANGED <<fpUnreadable, fpCalls, fpOut, fpPrevOut, fpHashed,
                   fpPrevHashed, fpListing, fpPrevListing>>
    /\ UNCHANGED nonFpVars

\* between two calls, a matched file is given another matched name that has
\* the same place among the sorted names
FpRename ==
    /\ fpCalls = 1
    /\ fpEdits = 0
    /\ \E a \in Matches("*.go", fpFiles), b \in {"main.go", "util.go"} \ DOMAIN fpFiles :
          /\ \A c \in (Matches("go.*", fpFiles) \cup Matches("*.go", fpFiles)) \ {a} :
                (Rank(c) < Rank(a)) = (Rank(c) < Rank(b))
          /\ fpFiles' = [n \in (DOMAIN fpFiles \ {a}) \cup {b} |->
                           IF n = b THEN fpFiles[a] ELSE fpFiles[n]]
    /\ fpEdits' = 1
    /\ UNCHANGED <<fpUnreadable, fpCalls, fpOut, fpPrevOut, fpHashed,
                   fpPrevHashed, fpListing, fpPrevListing>>
    /\ UNCHANGED nonFpVars

FpNext ==
    \/ FpHashSourceCode
    \/ FpChangeByte
    \/ FpMoveByte
    \/ FpRename

FpSpec == FpInit /\ [][FpNext]_vars


\* ------------------------------------------------------------------------
\* The dispatch of the older main() (no -instance / -num-instances) when
\* the external calls of some pipelines never return: those goroutines stay
\* inside d.run(folder).
\* ------------------------------------------------------------------------
\* the source trees in which no folder has more than one *.go file, as in
\* test/lambdas: every folder is listed once
SingleFileTrees == {t \in Trees : \A f \in TreeFolders : t[f] <= 1}

BlockedInit ==
    /\ PipeInit(NoObject)
    /\ tree \in SingleFileTrees
    /\ foldersFlag \in FolderFlags
    /\ partition = NoPartition
    /\ blocked \in SUBSET (1..Len(lambdaFolders(tree)))
    /\ mainPc = "start"
    /\ allFolders = <<>>
    /\ folders = <<>>
    /\ chunks = <<>>
    /\ selected = <<>>
    /\ task = <<>>
    /\ taskErr = <<>>
    /\ launched = 0
    /\ results = <<>>
    /\ closed = FALSE
    /\ numResults = 0
    /\ failures = <<>>
    /\ collected = <<>>
    /\ took = FALSE
    /\ exit = "none"
    /\ panicMsg = <<>>
    /\ WgIdle
    /\ FpIdle

BlockedNext ==
    \/ SelectFolders
    \/ MakeResults
    \/ Launch
    \/ StartCollect
    \/ RunFolder
    \/ Receive
    \/ RangeEnds
    \/ AllAsleep
    \/ Report

\* main() and the goroutines are scheduled fairly: a step that can be taken
\* is taken
BlockedSpec == BlockedInit /\ [][BlockedNext]_vars /\ WF_vars(BlockedNext)

\* goroutines that can run do run
DispFairSpec == DispSpec /\ WF_vars(DispNext)

\* ------------------------------------------------------------------------
\* Properties.
\* ------------------------------------------------------------------------
StageOrder ==
    <<"hashSourceCode", "isUpToDate", "buildExecutable", "zipExecutable",
      "sizeExecutable", "putObject", "startSigningJob", "waitForSigningJob",
      "getObject", "hashObject", "copyObject", "updateFunctionCode",
      "waitForFunctionUpdate", "publishLambdaVersion", "updateFunctionAlias">>

FunctionStages == {"updateFunctionCode", "waitForFunctionUpdate",
                   "publishLambdaVersion", "updateFunctionAlias"}

\* the stages a run with the current flags goes through when none fails
ExpectedStages ==
    SelectSeq(StageOrder,
              LAMBDA st : /\ (force => st # "isUpToDate")
                          /\ (noUpdateFunctions => st \notin FunctionStages))

Reverse(seq) == [i \in 1..Len(seq) |-> seq[Len(seq) + 1 - i]]

Call(c) == [fn |-> c.fn, arg |-> c.arg]

Attempted(fn, arg) ==
    \E i \in 1..Len(cleaned) : cleaned[i].fn = fn /\ cleaned[i].arg = arg

\* PutObject, CopyObject and DeleteObject calls made by the current run
StoreWrites ==
    Cardinality({i \in 1..Len(trace) : trace[i].stage \in {"putObject", "copyObject"}})
        + Cardinality({i \in 1..Len(cleaned) : cleaned[i].fn = "deleteObject"})

\* C1: the stages of a run are executed in the order of data.run (the
\* freshness lookup left out when forced, the four function stages left out
\* when function updates are skipped), and a stage is executed only when
\* every stage before it has succeeded.
C1_StageOrder ==
    /\ Len(trace) <= Len(ExpectedStages)
    /\ \A i \in 1..Len(trace) :
          /\ trace[i].stage = ExpectedStages[i]
          /\ i < Len(trace) => trace[i].ok
    /\ pc \in FunctionStages \cup {"isUpToDate"} \cup {"buildExecutable", "zipExecutable",
              "sizeExecutable", "putObject", "startSigningJob", "waitForSigningJob",
              "getObject", "hashObject", "copyObject", "hashSourceCode"}
          => /\ Len(trace) < Len(ExpectedStages)
             /\ pc = ExpectedStages[Len(trace) + 1]
             /\ \A i \in 1..Len(trace) : trace[i].ok

C1_Witness ==
    /\ pc = "returned"
    /\ ~force /\ ~noUpdateFunctions
    /\ Len(trace) = Len(StageOrder)
    /\ \A i \in 1..Len(trace) : trace[i].ok

\* C2: an unforced run whose freshness check answers true returns nil after
\* the two lookups only: no build, no file created or removed, no put, copy
\* or delete on the bucket, no signing call and no Lambda call.
C2_UpToDateRunDoesNothing ==
    (Executed("isUpToDate") /\ upToDate.val) =>
        /\ ~force
        /\ pc \in {"defers", "returned"}
        /\ result = Nil
        /\ trace = <<[stage |-> "hashSourceCode", ok |-> TRUE],
                     [stage |-> "isUpToDate", ok |-> TRUE]>>
        /\ scheduled = <<>>
        /\ defers = <<>>
        /\ cleaned = <<>>
        /\ StoreWrites = 0
        /\ jobId = 0

C2_Witness ==
    /\ pc = "returned"
    /\ Executed("isUpToDate") /\ upToDate.val
    /\ store[signedKey(Folder)].exists

\* the previous run returned nil and the sources it hashed are the ones this
\* run hashed
SecondRunUnchanged ==
    /\ pc = "returned"
    /\ prev.ran /\ prev.ok
    /\ prev.src = srcAtHash
    /\ ~force

\* C3 (as stated): after a successful run, an unforced run on the unchanged
\* sources makes no put, copy or delete call on the bucket.
C3_SecondRunWritesNothing ==
    SecondRunUnchanged => StoreWrites = 0

\* C3 (amended): after a successful run, an unforced run on the unchanged
\* sources whose metadata lookup succeeds makes no put, copy or delete call
\* on the bucket: the fingerprint it reads is the one of the sources and the
\* freshness check answers true.
C3_SecondRunWritesNothingIfLookupSucceeds ==
    (SecondRunUnchanged /\ Executed("isUpToDate") /\ ~headOut.err) =>
        /\ StoreWrites = 0
        /\ upToDate.val
        /\ headOut.meta.kv["unsignedhash"] = hashSourceCode(prev.src)

C3_Witness ==
    /\ SecondRunUnchanged
    /\ prev.copied
    /\ Executed("isUpToDate") /\ ~headOut.err
    /\ upToDate.val

\* C4: a run whose function stages failed after the signed copy does not
\* make a later unforced run on the unchanged sources stop as up to date.
C4_FailedDeploymentIsNotSkipped ==
    (prev.ran /\ prev.copied /\ ~prev.ok /\ prev.src = srcAtHash)
        => ~(Executed("isUpToDate") /\ upToDate.val)

\* C5: isUpToDate never returns an error; it returns true exactly when the
\* lookup succeeded, the object has metadata, the metadata has the
\* fingerprint field, and the stored fingerprint equals the current one.
C5_IsUpToDateNeverFails ==
    Executed("isUpToDate") =>
        /\ upToDate.err = Nil
        /\ failedStage # "isUpToDate"
        /\ upToDate.val <=>
              /\ ~headOut.err
              /\ ~headOut.meta.nil
              /\ headOut.meta.kv["unsignedhash"] # NoValue
              /\ headOut.meta.kv["unsignedhash"] = unsignedHash
        /\ headOut.err => ~upToDate.val

C5_Witness ==
    /\ Executed("isUpToDate")
    /\ headOut.err
    /\ store[signedKey(Folder)].exists
    /\ store[signedKey(Folder)].meta.kv["unsignedhash"] = unsignedHash
    /\ pc = "buildExecutable"

FailedAfterUpload ==
    /\ pc = "returned"
    /\ Succeeded("putObject")
    /\ result # Nil

\* C6 (as stated): when a run fails after the unsigned upload, the unsigned
\* object is absent from the bucket once the run has returned.
C6_UnsignedAbsentAfterFailure ==
    FailedAfterUpload => ~store[unsignedKey(Folder)].exists

\* C6 (amended): when a run fails after the unsigned upload, the deletion of
\* the unsigned object is attempted before the run returns, the run reports
\* the failure of the stage, and the unsigned object is absent once the run
\* has returned if that deletion succeeded.
C6_UnsignedDeletionAttemptedAfterFailure ==
    FailedAfterUpload =>
        /\ Attempted("deleteObject", unsignedKey(Folder))
        /\ result = Err(failedStage)
        /\ \A i \in 1..Len(cleaned) :
              (Call(cleaned[i]) = [fn |-> "deleteObject", arg |-> unsignedKey(Folder)]
                  /\ cleaned[i].ok)
              => ~store[unsignedKey(Folder)].exists

C6_Witness ==
    /\ FailedAfterUpload
    /\ failedStage = "waitForSigningJob"
    /\ ~store[unsignedKey(Folder)].exists

\* C7: a run that submitted a signing job attempts to delete the staging
\* object of that job before it returns, whatever the outcome of the run.
C7_StagingDeletionAlwaysAttempted ==
    (pc = "returned" /\ Succeeded("startSigningJob"))
        => Attempted("deleteObject", stagingKey)

C9_ResultIsStageResult ==
    pc \in {"defers", "returned"} =>
        /\ Len(trace) > 0
        /\ result = IF trace[Len(trace)].ok THEN Nil
                    ELSE Err(trace[Len(trace)].stage)

C9_Witness ==
    /\ pc = "returned"
    /\ result = Nil
    /\ \E i \in 1..Len(cleaned) : cleaned[i].fn = "deleteObject" /\ ~cleaned[i].ok
    /\ \E i \in 1..Len(cleaned) : cleaned[i].fn = "deleteFile" /\ ~cleaned[i].ok

\* the deferred calls data.run has registered once the given stages succeeded
ExpectedDeferred ==
    (IF Succeeded("buildExecutable")
        THEN <<[fn |-> "deleteFile", arg |-> executablePath(Folder)]>> ELSE <<>>)
    \o (IF Succeeded("putObject")
        THEN <<[fn |-> "deleteObject", arg |-> unsignedKey(Folder)]>> ELSE <<>>)
    \o (IF Succeeded("waitForSigningJob")
        THEN <<[fn |-> "deleteObject", arg |-> stagingKey]>> ELSE <<>>)
    \o (IF Succeeded("getObject")
        THEN <<[fn |-> "Close", arg |-> <<"signedR", Folder>>]>> ELSE <<>>)

\* C10: when a stage fails, it is the last stage of the run, every deferred
\* call registered so far has run by the time the run returns, and the run
\* returns the error of that stage.
C10_FailureStopsRun ==
    (pc = "returned" /\ failedStage # "none") =>
        /\ trace[Len(trace)] = [stage |-> failedStage, ok |-> FALSE]
        /\ \A i \in 1..(Len(trace) - 1) : trace[i].ok
        /\ scheduled = ExpectedDeferred
        /\ [i \in 1..Len(cleaned) |-> Call(cleaned[i])] = Reverse(scheduled)
        /\ result = Err(failedStage)

C10_Witness ==
    /\ pc = "returned"
    /\ failedStage = "copyObject"
    /\ Len(cleaned) = 4

PublishedBeforeAlias ==
    /\ Succeeded("updateFunctionCode")
    /\ Succeeded("waitForFunctionUpdate")
    /\ Succeeded("publishLambdaVersion")

\* C11: updateFunctionAlias is called only in a run in which
\* updateFunctionCode, waitForFunctionUpdate and publishLambdaVersion have
\* succeeded, and the alias of the function changes in no other step.
C11_AliasOnlyAfterPublish ==
    [][/\ pc = "updateFunctionAlias" => PublishedBeforeAlias
       /\ lambdaFn'.alias # lambdaFn.alias =>
             /\ pc = "updateFunctionAlias"
             /\ PublishedBeforeAlias
             /\ lambdaFn'.alias = functionVersion]_vars

C11_Witness ==
    /\ Succeeded("updateFunctionAlias")
    /\ functionVersion > 0
    /\ lambdaFn.alias = functionVersion

\* C12: with -no-update-functions, a run whose copy stage succeeded has put
\* the signed package at the signed key and returns nil without having
\* called any of the four function stages.
C12_NoUpdateFunctionsSkipsLambda ==
    (noUpdateFunctions /\ Succeeded("copyObject")) =>
        /\ pc \in {"defers", "returned"}
        /\ result = Nil
        /\ \A st \in FunctionStages : ~Executed(st)
        /\ store[signedKey(Folder)].exists
        /\ store[signedKey(Folder)].body = signedR

C12_Witness ==
    /\ noUpdateFunctions
    /\ Succeeded("copyObject")
    /\ pc = "returned"

\* ------------------------------------------------------------------------
\* Properties of main()
\* ------------------------------------------------------------------------
\* the collection loop is over and main() goes on to its report
Reporting == mainPc = "took" \/ took

\* the indices of the dispatched folders
Dispatched == 1..Len(folders)

\* C13: whatever the order in which the pipeline tasks finish, no result is
\* counted twice, the counter equals the number of results taken from the
\* channel, and when main() reports, the result of every dispatched folder
\* has been taken exactly once and none is left in the channel.
C13_OneResultPerFolder ==
    /\ \A i, j \in 1..Len(collected) : collected[i] = collected[j] => i = j
    /\ numResults = Len(collected)
    /\ Reporting =>
          /\ \A k \in Dispatched : \E j \in 1..Len(collected) : collected[j] = k
          /\ Len(collected) = Len(folders)
          /\ results = <<>>

\* two folders whose results arrived in the reverse of the launch order
C13_Witness ==
    /\ took
    /\ collected = <<2, 1>>

\* the dispatched folders whose pipeline returned an error
FailedFolders == {folders[i] : i \in {k \in Dispatched : taskErr[k] # Nil}}

Range(seq) == {seq[i] : i \in 1..Len(seq)}

\* C14: a failing pipeline stops nothing but itself. Once goroutines are
\* launched the process ends only through the report of main(); when main()
\* reports, every dispatched pipeline has returned, and the folders recorded
\* as failed are exactly those whose pipeline returned an error, one record
\* per failed pipeline.
C14_FaultIsolation ==
    /\ launched > 0 =>
          /\ exit \in {"none", "ok", "panic: failures"}
          /\ exit # "none" => took
    /\ Reporting =>
          /\ \A i \in Dispatched : task[i] = "done"
          /\ Range(failures) = FailedFolders
          /\ Len(failures) = Cardinality({k \in Dispatched : taskErr[k] # Nil})
    /\ exit = "panic: failures" => Range(panicMsg) = FailedFolders
    /\ exit = "ok" => FailedFolders = {}

\* alpha failed, beta succeeded, and only alpha is reported
C14_Witness ==
    /\ exit = "panic: failures"
    /\ folders = <<"alpha", "beta">>
    /\ taskErr = <<Err("buildExecutable"), Nil>>
    /\ task = <<"done", "done">>
    /\ panicMsg = <<"alpha">>

\* C15: no folder name has two pipeline tasks in one dispatch.
C15_OnePipelinePerFolderName ==
    \A i, j \in 1..Len(task) :
        (task[i] # "notStarted" /\ task[j] # "notStarted" /\ folders[i] = folders[j])
            => i = j

\* main() ended before it had made the results channel
EndedBeforeDispatch ==
    exit \in {"panic: not a Lambda folder", "panic: index out of range",
              "panic: integer divide by zero"}

\* every launched pipeline has returned and main() is collecting
AllReturned ==
    /\ mainPc = "collect"
    /\ \A i \in 1..Len(task) : task[i] = "done"

\* C16: for every dispatched list, the empty one included, main() gets out
\* of the collection loop, prints the elapsed time and terminates. Stated
\* on finite runs: a process that reached the dispatch never ends without
\* having left the loop and printed the elapsed time.
C16_DispatchEndsAfterTook ==
    (mainPc = "exited" /\ ~EndedBeforeDispatch) =>
        /\ took
        /\ exit \in {"ok", "panic: failures"}

\* the same for the lists with at least one folder, as a liveness property
NonEmptyDispatchTerminates ==
    (AllReturned /\ Len(folders) > 0) ~> (took /\ mainPc = "exited")

\* C17: a process that reached the dispatch ends abnormally exactly when the
\* pipeline of at least one dispatched folder returned an error, and ends
\* normally when every pipeline returned nil.
C17_AbnormalIffPipelineFailed ==
    (mainPc = "exited" /\ ~EndedBeforeDispatch) =>
        (exit # "ok" <=> FailedFolders # {})

\* the same, for the processes that got out of the collection loop
ReportedIffPipelineFailed ==
    took => (exit = "panic: failures" <=> FailedFolders # {})

Ascending(names) ==
    \A i, j \in 1..Len(names) : i < j => FolderRank(names[i]) <= FolderRank(names[j])

\* how many times a name stands in a list
Occurrences(names, name) == Cardinality({i \in 1..Len(names) : names[i] = name})

\* C18: nothing is reported before every result is collected, and the
\* failure report is the ascending list of the folders whose pipeline
\* returned an error, one entry per failed pipeline: it is fixed by the
\* dispatched list and the outcome of each pipeline, whatever the order in
\* which the results arrived.
C18_SortedFailureReport ==
    /\ panicMsg # <<>> => exit = "panic: failures"
    /\ exit = "panic: failures" =>
          /\ took
          /\ Len(collected) = Len(folders)
          /\ Ascending(panicMsg)
          /\ \A name \in TreeFolders :
                Occurrences(panicMsg, name) =
                    Cardinality({k \in Dispatched :
                                    folders[k] = name /\ taskErr[k] # Nil})

\* beta's failure arrived before alpha's, and the report puts alpha first
C18_Witness ==
    /\ exit = "panic: failures"
    /\ collected = <<2, 1>>
    /\ failures = <<"beta", "alpha">>
    /\ panicMsg = <<"alpha", "beta">>

RECURSIVE Concat(_)
Concat(seqs) == IF seqs = <<>> THEN <<>> ELSE Head(seqs) \o Concat(Tail(seqs))

\* the chunks have been cut and the chunk of the instance exists
ChunkSelected == partition.on /\ mainPc \notin {"start", "chunk"} /\ ~EndedBeforeDispatch

\* the chunks, one after the other, are the selected list: they are
\* contiguous slices that share no list entry and leave none out, and there
\* are no more chunks than instances
ChunksPartitionEntries ==
    ChunkSelected =>
        /\ Concat(chunks) = selected
        /\ Len(chunks) <= partition.numInstances
        /\ folders = chunks[partition.instance + 1]

\* C19: the chunks are contiguous slices of the folder list that share no
\* folder and leave none out, so that every folder of the list is in the
\* chunk of exactly one instance.
C19_EachFolderInOneChunk ==
    ChunkSelected =>
        /\ Concat(chunks) = selected
        /\ Len(chunks) <= partition.numInstances
        /\ \A name \in Range(selected) :
              Cardinality({c \in 1..Len(chunks) : name \in Range(chunks[c])}) = 1

\* C20: with numInstances >= 1, every instance index below numInstances has
\* a chunk, so that the selection of the chunk never fails.
C20_EveryIndexSelectsAChunk ==
    (partition.on /\ partition.numInstances >= 1
                  /\ partition.instance < partition.numInstances)
        => exit # "panic: index out of range"

\* C21: when neither -instance nor -num-instances is passed, main() goes on
\* to the dispatch with the whole selected list: the chunk selection changes
\* nothing and does not fail.
C21_DefaultsDeployWholeList ==
    (partition = DefaultPartition /\ mainPc \notin {"start", "chunk"}
                                  /\ exit # "panic: not a Lambda folder") =>
        /\ exit # "panic: integer divide by zero"
        /\ folders = selected

\* C22: whether a goroutine treats its build as failed depends on what its
\* own buildExecutable returned, and on nothing another goroutine wrote.
C22_OwnStageResultDecides ==
    \A i \in 1..Len(wgFolders) :
        /\ wgTreated[i] = "failed" => wgBuilt[i] # Nil
        /\ wgTreated[i] = "built" => wgBuilt[i] = Nil

\* the local path and the store keys that the pipeline of a folder writes
\* and deletes
Resources(folder) == {executablePath(folder), unsignedKey(folder), signedKey(folder)}

\* C23: no two pipeline tasks that run at the same time work on the same
\* local executable path, unsigned key or signed key.
C23_NoSharedKeyOrPath ==
    \A i, j \in 1..Len(task) :
        (i # j /\ task[i] = "running" /\ task[j] = "running")
            => Resources(folders[i]) \cap Resources(folders[j]) = {}

\* ------------------------------------------------------------------------
\* Properties of hashSourceCode
\* ------------------------------------------------------------------------
\* the files of a folder that go into its fingerprint, with their contents
Included(fs) ==
    [n \in Matches("go.*", fs) \cup Matches("*.go", fs) |-> fs[n]]

\* C24: two calls of hashSourceCode on a folder whose included files have
\* the same names and the same contents return the same fingerprint (or the
\* same error), in whatever order the file system listed the files.
C24_FingerprintDeterministic ==
    (fpCalls >= 2 /\ Included(fpHashed) = Included(fpPrevHashed))
        => fpOut = fpPrevOut

\* main.go and util.go differ and were listed in two different orders
C24_Witness ==
    /\ fpCalls = 2
    /\ Included(fpHashed) = Included(fpPrevHashed)
    /\ DOMAIN Included(fpHashed) = {"go.mod", "main.go", "util.go"}
    /\ fpHashed["main.go"] # fpHashed["util.go"]
    /\ fpListing # fpPrevListing
    /\ fpOut.err = Nil
    /\ fpOut = fpPrevOut

\* one byte of one included file differs between the two folders, all else
\* being the same
OneIncludedByteChanged(before, after) ==
    /\ DOMAIN before = DOMAIN after
    /\ \E n \in DOMAIN Included(before) :
          /\ \A other \in DOMAIN before \ {n} : before[other] = after[other]
          /\ Len(before[n]) = Len(after[n])
          /\ Cardinality({k \in 1..Len(before[n]) : before[n][k] # after[n][k]}) = 1

\* C25: with a collision-free digest, changing one byte of one included
\* file changes the fingerprint.
C25_ByteChangeChangesFingerprint ==
    (/\ fpCalls >= 2
     /\ fpOut.err = Nil
     /\ fpPrevOut.err = Nil
     /\ OneIncludedByteChanged(fpPrevHashed, fpHashed))
        => fpOut.hash # fpPrevOut.hash

\* the last of three included files was edited between the two calls
C25_Witness ==
    /\ fpCalls = 2
    /\ fpOut.err = Nil
    /\ fpPrevOut.err = Nil
    /\ DOMAIN Included(fpHashed) = {"go.mod", "main.go", "util.go"}
    /\ OneIncludedByteChanged(fpPrevHashed, fpHashed)
    /\ fpHashed["util.go"] # fpPrevHashed["util.go"]
    /\ fpOut.hash # fpPrevOut.hash

\* a call of hashSourceCode on a folder with an unreadable matched file
\* returns no fingerprint and the error of the first such file in sorted
\* order; otherwise it returns a fingerprint and no error
FirstUnreadableAborts ==
    fpCalls >= 1 =>
        LET filenames == SortStrings(fpListing)
            bad == {i \in 1..Len(filenames) : filenames[i] \in fpUnreadable}
        IN IF bad = {}
           THEN fpOut.err = Nil /\ fpOut.hash # <<>>
           ELSE /\ fpOut.hash = <<>>
                /\ \E i \in bad :
                      /\ \A k \in bad : i <= k
                      /\ fpOut.err = Err("hashSourceCode " \o filenames[i])

\* C26: when hashSourceCode returns an error, the run has no fingerprint
\* and returns that error, with hashSourceCode as its only stage: no
\* freshness lookup, no build, nothing deferred, and no step of the run
\* changes the local executable, the bucket, the signing jobs or the Lambda
\* function (the signing service may still finish a job of an earlier run).
C26_FingerprintFailureStopsRun ==
    [][failedStage' = "hashSourceCode" =>
          /\ pc' \in {"defers", "returned"}
          /\ result' = Err("hashSourceCode")
          /\ unsignedHash' = NoValue
          /\ trace' = <<[stage |-> "hashSourceCode", ok |-> FALSE]>>
          /\ scheduled' = <<>>
          /\ cleaned' = <<>>
          /\ <<pc, trace, defers, cleaned>>' # <<pc, trace, defers, cleaned>>
                => UNCHANGED <<localExe, store, nextVersion, jobs, lambdaFn>>]_vars

\* the second run failed at hashSourceCode and the signed package of the
\* folder is still in place
C26_Witness ==
    /\ failedStage = "hashSourceCode"
    /\ pc = "returned"
    /\ runs = 2
    /\ store[signedKey(Folder)].exists
    /\ result = Err("hashSourceCode")

\* C27: a forced run makes no freshness check and never stops as up to
\* date: once the sources are hashed its next stage is buildExecutable, and
\* it returns nil only after the signed copy (and the alias update, unless
\* function updates are skipped).
C27_ForcedRunNeverSkips ==
    (force /\ pc # "idle") =>
        /\ ~Executed("isUpToDate")
        /\ upToDate = NoRet
        /\ Succeeded("hashSourceCode")
              => (pc = "buildExecutable" \/ Executed("buildExecutable"))
        /\ (pc = "returned" /\ result = Nil) =>
              /\ Succeeded("copyObject")
              /\ ~noUpdateFunctions => Succeeded("updateFunctionAlias")

\* a forced run builds although the signed object carries the fingerprint
\* of the current sources
C27_Witness ==
    /\ force
    /\ pc = "buildExecutable"
    /\ store[signedKey(Folder)].exists
    /\ store[signedKey(Folder)].meta.kv["unsignedhash"] = unsignedHash
    /\ unsignedHash = hashSourceCode(files)

\* C28: no stage is executed twice in one run, a run submits at most one
\* signing job, and a run whose signing job could not be submitted or did
\* not succeed in time stops at that stage.
C28_NoStageRetried ==
    /\ \A i, j \in 1..Len(trace) : trace[i].stage = trace[j].stage => i = j
    /\ Cardinality({n \in JobNums : jobs[n].status # "none"}) <= runs
    /\ failedStage \in {"startSigningJob", "waitForSigningJob"} =>
          /\ pc \in {"defers", "returned"}
          /\ trace[Len(trace)] = [stage |-> failedStage, ok |-> FALSE]
          /\ result = Err(failedStage)

\* the first run has returned after its signing job failed, and no other
\* job was submitted
C28_Witness ==
    /\ pc = "returned"
    /\ runs = 1
    /\ failedStage = "waitForSigningJob"
    /\ jobs[jobId].status = "failed"
    /\ Cardinality({n \in JobNums : jobs[n].status # "none"}) = 1

\* C29: a run whose build succeeded has called deleteFile on the executable
\* by the time it returns, whatever stage failed after the build; the call
\* is made only among the deferred calls, after zipExecutable was executed,
\* and the executable is there when zipExecutable starts to read it.
C29_ExecutableRemovedAfterZip ==
    /\ (pc = "returned" /\ Succeeded("buildExecutable"))
          => Attempted("deleteFile", executablePath(Folder))
    /\ Attempted("deleteFile", executablePath(Folder)) =>
          /\ pc \in {"defers", "returned"}
          /\ Succeeded("buildExecutable")
          /\ Executed("zipExecutable")
    /\ pc = "zipExecutable" => localExe = Compile(srcAtHash)

\* the run failed after the signed copy and the executable is gone
C29_Witness ==
    /\ pc = "returned"
    /\ failedStage = "updateFunctionCode"
    /\ Attempted("deleteFile", executablePath(Folder))
    /\ localExe = <<>>

\* C30: the CodeSha256 of the PublishVersion request of a run is the hash
\* of the signed package that the run wrote into the metadata of the signed
\* object, and the alias is set to the version that PublishVersion returned
\* in that run.
C30_PublishedHashAndAliasedVersion ==
    /\ Executed("publishLambdaVersion") =>
          /\ lambdaFn.codeSha256 = signedHash
          /\ signedHash = hashObject(signedR)
          /\ store[signedKey(Folder)].meta.kv["signedhash"] = lambdaFn.codeSha256
          /\ store[signedKey(Folder)].meta.kv["source-code-hash"] = lambdaFn.codeSha256
    /\ Succeeded("publishLambdaVersion") =>
          /\ functionVersion = lambdaFn.version
          /\ functionVersion > 0
    /\ Succeeded("updateFunctionAlias") =>
          /\ Succeeded("publishLambdaVersion")
          /\ lambdaFn.alias = functionVersion

\* the second deployment: version 2 is published and aliased
C30_Witness ==
    /\ pc = "returned"
    /\ Succeeded("updateFunctionAlias")
    /\ functionVersion = 2
    /\ lambdaFn.alias = 2
    /\ lambdaFn.codeSha256 = store[signedKey(Folder)].meta.kv["signedhash"]

\* ------------------------------------------------------------------------
\* C31 -- The signing job of a run is submitted for exactly the unsigned key
\* and the version identifier returned by that same run's put; the staging
\* key that is then downloaded, copied from and deleted is the one derived
\* from the job id returned by that submission.
\* ------------------------------------------------------------------------
\* the deleteObject calls the current run has deferred
DeferredDeletes ==
    {scheduled[i].arg : i \in {j \in 1..Len(scheduled) : scheduled[j].fn = "deleteObject"}}

C31_JobAndStagingKeyOfThisRun ==
    /\ Succeeded("putObject") =>
          \* the version the run holds is the one its own put created
          /\ objectVersion = nextVersion
          /\ objectVersion > 0
    /\ Succeeded("startSigningJob") =>
          /\ jobs[jobId].key = unsignedKey(Folder)
          /\ jobs[jobId].ver = objectVersion
          /\ jobs[jobId].body = unsignedR
    /\ Succeeded("waitForSigningJob") =>
          DeferredDeletes = {unsignedKey(Folder), stagingKeyOf(JobName(jobId))}
    /\ Succeeded("getObject") => signedR = SignedBytes(jobId, unsignedR)
    /\ Succeeded("copyObject") =>
          store[signedKey(Folder)].body = SignedBytes(jobId, unsignedR)
    /\ \A k \in DeferredDeletes :
          k \in {unsignedKey(Folder), stagingKeyOf(JobName(jobId))}

\* a second run, whose job is not the first one, has copied the package its
\* own job produced while the first job's staging object still exists
C31_Witness ==
    /\ runs = 2
    /\ jobId = 2
    /\ Succeeded("copyObject")
    /\ store[stagingKeyOf(JobName(1))].exists
    /\ store[signedKey(Folder)].body = SignedBytes(2, unsignedR)
    /\ Attempted("deleteObject", stagingKeyOf(JobName(2)))

\* ------------------------------------------------------------------------
\* C32 -- All pipeline tasks are launched eagerly: the Dispatcher starts a
\* task for every dispatched folder before it begins collecting results, and
\* the start of no task waits for the completion of another task.
\* ------------------------------------------------------------------------
C32_EagerLaunch ==
    /\ (mainPc \in {"collect", "took"} \/ collected # <<>>) =>
          /\ launched = Len(folders)
          /\ \A i \in 1..Len(task) : task[i] # "notStarted"
    \* whatever the tasks already started are doing, the next one can start
    /\ (mainPc = "dispatch" /\ launched < Len(folders)) => ENABLED Launch

\* the collection begins while every one of several tasks is still running
C32_Witness ==
    /\ mainPc = "collect"
    /\ Len(folders) >= 2
    /\ numResults = 0
    /\ results = <<>>
    /\ \A i \in 1..Len(task) : task[i] = "running"

\* ------------------------------------------------------------------------
\* C33 -- A pipeline task that is blocked in an external call (for example
\* waiting for its signing job) never prevents another folder's task from
\* progressing: under fair scheduling every other task whose own external
\* calls return reaches its terminal state and delivers its result.
\* ------------------------------------------------------------------------
TaskIds == 1..Cardinality(TreeFolders)

\* goroutine i sits in an external call that never returns
Stuck(i) == i \in blocked /\ i <= Len(task) /\ task[i] = "running"

\* goroutine i has returned from d.run and its result is in the channel or
\* with the collector
Delivered(i) ==
    /\ i <= Len(task)
    /\ task[i] = "done"
    /\ \/ \E k \in 1..Len(results) : results[k].task = i
       \/ \E k \in 1..Len(collected) : collected[k] = i

C33_BlockedTaskStopsNoOther ==
    \A i \in TaskIds :
        (/\ i <= Len(task)
         /\ task[i] = "running"
         /\ i \notin blocked
         /\ \E b \in TaskIds : Stuck(b))
            ~> Delivered(i)

\* one goroutine is stuck in its pipeline while another one has delivered
\* its result and the collector has received it
C33_Witness ==
    \E b, i \in TaskIds :
        /\ Stuck(b)
        /\ i \notin blocked
        /\ Delivered(i)
        /\ \E k \in 1..Len(collected) : collected[k] = i

\* ------------------------------------------------------------------------
\* C34 -- The results channel is used safely under every interleaving: the
\* collector closes it only after it has received a result from every
\* launched task, no task sends on it after it is closed, and no task's send
\* ever blocks because the channel capacity equals the number of launched
\* tasks.
\* ------------------------------------------------------------------------
C34_ChannelUsedSafely ==
    /\ closed =>
          /\ launched = Len(folders)
          /\ numResults = Len(folders)
          /\ \A i \in 1..Len(task) :
                /\ task[i] = "done"
                /\ Occurrences(collected, i) = 1
    /\ exit # "panic: send on closed channel"
    \* a goroutine whose d.run returns can send at once
    /\ (\E i \in 1..Len(task) : task[i] = "running" /\ i \notin blocked) =>
          ENABLED RunFolder
    /\ Len(results) <= Len(folders)

\* the channel is closed and empty after main() received the results of two
\* goroutines, the second one's first
C34_Witness ==
    /\ Len(folders) >= 2
    /\ closed
    /\ results = <<>>
    /\ numResults = Len(folders)
    /\ collected = <<2, 1>>

\* ------------------------------------------------------------------------
\* C37 -- Cleanup never removes the durable artifact: for every
\* configuration of the unsigned, staging and signed prefixes, the keys a
\* run deletes (its unsigned key and its staging key) are different from the
\* folder's canonical signed key, so after a successful run the signed
\* artifact is still present.
\* ------------------------------------------------------------------------
C37_CleanupKeepsSignedArtifact ==
    /\ \A k \in DeferredDeletes : k # signedKey(Folder)
    /\ (pc = "returned" /\ result = Nil) => store[signedKey(Folder)].exists

Deletions ==
    SelectSeq([i \in 1..Len(cleaned) |-> Call(cleaned[i])],
              LAMBDA c : c.fn \in {"deleteObject", "deleteFile"})

CleanupRank(c) ==
    IF c = [fn |-> "deleteObject", arg |-> stagingKey] THEN 1
    ELSE IF c = [fn |-> "deleteObject", arg |-> unsignedKey(Folder)] THEN 2
    ELSE IF c = [fn |-> "deleteFile", arg |-> executablePath(Folder)] THEN 3
    ELSE 0

\* cleanup runs after the last stage, staging object first and executable
\* last, and never while the run waits for its signing job
CleanupAfterLastStageInOrder ==
    /\ cleaned # <<>> =>
          /\ pc \in {"defers", "returned"}
          /\ result # Nil => trace[Len(trace)] = [stage |-> failedStage, ok |-> FALSE]
    /\ \A i \in 1..Len(Deletions) : CleanupRank(Deletions[i]) # 0
    /\ \A i, j \in 1..Len(Deletions) :
          i < j => CleanupRank(Deletions[i]) < CleanupRank(Deletions[j])
    /\ pc = "waitForSigningJob" => cleaned = <<>>

\* C36 (as stated): with the staging object deleted only once the copy to
\* the signed key has been attempted
C36_StagingDeletedAfterCopyAttempt ==
    /\ CleanupAfterLastStageInOrder
    /\ Attempted("deleteObject", stagingKey) => Executed("copyObject")

\* C36 (amended): the staging object is deleted only after the wait for the
\* signing job has succeeded and the last stage of the run has finished; the
\* copy has been attempted by then unless the run failed at the download or
\* the hashing of the staging object, in which case the staging object is
\* deleted without any copy.
C36_StagingDeletedAfterLastStage ==
    /\ CleanupAfterLastStageInOrder
    /\ Attempted("deleteObject", stagingKey) =>
          /\ Succeeded("waitForSigningJob")
          /\ Executed("copyObject") \/ failedStage \in {"getObject", "hashObject"}
    /\ (Attempted("deleteObject", stagingKey) /\ ~Executed("copyObject")) =>
          result = Err(failedStage)

\* the download of the staging object failed: the staging object, the
\* unsigned object and the executable have been deleted, in that order, and
\* no copy was attempted
C36_Witness ==
    /\ pc = "returned"
    /\ failedStage = "getObject"
    /\ ~Executed("copyObject")
    /\ Deletions = <<[fn |-> "deleteObject", arg |-> stagingKey],
                     [fn |-> "deleteObject", arg |-> unsignedKey(Folder)],
                     [fn |-> "deleteFile", arg |-> executablePath(Folder)]>>
    /\ ~store[stagingKey].exists

\* ------------------------------------------------------------------------
\* C38 -- If the folder allow-list names any folder that is not among the
\* discovered eligible folders, the Dispatcher aborts before launching any
\* pipeline task; otherwise the dispatched list is exactly the allow-list,
\* and with no allow-list it is exactly the discovered folders.
\* ------------------------------------------------------------------------
\* -folders names something lambdaFolders() did not return
UnknownFolderNamed ==
    \E i \in 1..Len(foldersFlag) : ~contains(lambdaFolders(tree), foldersFlag[i])

\* the list the allow-list stage produces
AllowedList == IF foldersFlag # <<>> THEN foldersFlag ELSE lambdaFolders(tree)

DispatchReached == mainPc \in {"dispatch", "collect", "took"} \/ took

\* an unknown name ends main() with the panic of the allow-list stage, with
\* no goroutine started and no channel made; that panic has no other cause
AbortsOnUnknownFolder ==
    /\ (UnknownFolderNamed /\ mainPc # "start") =>
          /\ mainPc = "exited"
          /\ exit = "panic: not a Lambda folder"
          /\ launched = 0
          /\ task = <<>>
    /\ exit = "panic: not a Lambda folder" => UnknownFolderNamed

\* C38 (as stated): the list that is dispatched is the allow-list or, without
\* one, the discovered list
C38_DispatchedListIsAllowList ==
    /\ AbortsOnUnknownFolder
    /\ DispatchReached => folders = AllowedList

\* C38 (amended): the allow-list or, without one, the discovered list is the
\* list main() goes on with; it is dispatched as it is when there is no
\* partitioning, and otherwise the chunk of it that belongs to the instance
\* is dispatched.
C38_AllowListThenChunk ==
    /\ AbortsOnUnknownFolder
    /\ (~UnknownFolderNamed /\ mainPc # "start") => selected = AllowedList
    /\ DispatchReached =>
          /\ ~UnknownFolderNamed
          /\ ~partition.on => folders = AllowedList
          /\ partition.on =>
                /\ partition.instance < Len(chunks)
                /\ folders = chunks[partition.instance + 1]
                /\ Concat(chunks) = AllowedList

\* the allow-list beta,alpha was accepted, in its own order, and instance 0
\* of 2 dispatched its chunk of it
C38_Witness ==
    /\ mainPc = "collect"
    /\ foldersFlag = <<"beta", "alpha">>
    /\ selected = <<"beta", "alpha">>
    /\ partition = [on |-> TRUE, instance |-> 0, numInstances |-> 2]
    /\ folders = <<"beta">>

\* ------------------------------------------------------------------------
\* C39 -- The fingerprint depends only on the byte sequence obtained by
\* concatenating the matched files in sorted filename order: two folder
\* states whose sorted files concatenate to the same bytes (for example
\* after moving bytes from the end of one file to the start of the next, or
\* renaming a file without changing the sort order) have the same
\* fingerprint.
\* ------------------------------------------------------------------------
\* the bytes of the matched files of a folder, from the file of rank r on,
\* in ascending order of the names
RECURSIVE BytesFrom(_, _)
BytesFrom(fs, r) ==
    IF r > 4 THEN <<>>
    ELSE LET here == {n \in DOMAIN Included(fs) : Rank(n) = r}
         IN (IF here = {} THEN <<>> ELSE fs[CHOOSE n \in here : TRUE])
               \o BytesFrom(fs, r + 1)

C39_FingerprintOfConcatenation ==
    (/\ fpCalls >= 2
     /\ fpOut.err = Nil
     /\ fpPrevOut.err = Nil
     /\ BytesFrom(fpHashed, 1) = BytesFrom(fpPrevHashed, 1))
        => fpOut.hash = fpPrevOut.hash

\* a byte was moved from go.mod to main.go between the two calls and the
\* fingerprint is the same
C39_Witness ==
    /\ fpCalls = 2
    /\ fpOut.err = Nil
    /\ fpPrevOut.err = Nil
    /\ fpOut.hash = fpPrevOut.hash
    /\ Included(fpHashed) # Included(fpPrevHashed)
    /\ DOMAIN fpHashed = DOMAIN fpPrevHashed
    /\ "go.mod" \in DOMAIN fpHashed /\ "main.go" \in DOMAIN fpHashed
    /\ Len(fpHashed["go.mod"]) < Len(fpPrevHashed["go.mod"])
    /\ Len(fpHashed["main.go"]) > Len(fpPrevHashed["main.go"])

\* a file was renamed between the two calls, keeping its place, and the
\* fingerprint is the same
RenamedSameFingerprint ==
    /\ fpCalls = 2
    /\ fpOut.err = Nil
    /\ fpPrevOut.err = Nil
    /\ fpOut.hash = fpPrevOut.hash
    /\ fpOut.hash # Digest(<<>>)
    /\ DOMAIN Included(fpHashed) # DOMAIN Included(fpPrevHashed)

====
